---------------------------- MODULE Spec2Model ----------------------------
(***************************************************************************)
(* SAM.gov entity resolution for HubSpot companies: the company webhook    *)
(* (normalisation, similarity scoring, candidate retrieval with fallback,  *)
(* result cache, classification, request de-duplication).                  *)
(*                                                                         *)
(* Strings that the code inspects character by character are sequences of  *)
(* one-character strings; strings it only compares or copies are TLA+      *)
(* strings.  Scores are exact rationals <<numerator, denominator>>.        *)
(***************************************************************************)
EXTENDS Integers, Sequences, FiniteSets, TLC

(***************************************************************************)
(* Characters                                                              *)
(***************************************************************************)
Lowers ==
  <<"a","b","c","d","e","f","g","h","i","j","k","l","m",
    "n","o","p","q","r","s","t","u","v","w","x","y","z">>

Uppers ==
  <<"A","B","C","D","E","F","G","H","I","J","K","L","M",
    "N","O","P","Q","R","S","T","U","V","W","X","Y","Z">>

Digits == {"0","1","2","3","4","5","6","7","8","9"}

Range(s) == { s[i] : i \in DOMAIN s }

\* String.prototype.toLowerCase, one character
LowerChar(c) ==
  IF \E i \in DOMAIN Uppers : Uppers[i] = c
    THEN Lowers[CHOOSE i \in DOMAIN Uppers : Uppers[i] = c]
    ELSE c

\* String.prototype.toUpperCase, one character
UpperChar(c) ==
  IF \E i \in DOMAIN Lowers : Lowers[i] = c
    THEN Uppers[CHOOSE i \in DOMAIN Lowers : Lowers[i] = c]
    ELSE c

toLowerCase(s) == [ i \in DOMAIN s |-> LowerChar(s[i]) ]

toUpperCase(s) == [ i \in DOMAIN s |-> UpperChar(s[i]) ]

\* the regular expression class \w
IsWordChar(c) == c \in Range(Lowers) \cup Range(Uppers) \cup Digits \cup {"_"}

\* the regular expression class \s
IsSpace(c) == c = " "

\* the regular expression class [a-z0-9]
IsAlnumLower(c) == c \in Range(Lowers) \cup Digits

\* String.prototype.trim
RECURSIVE trimStart(_)
trimStart(s) ==
  IF s # <<>> /\ IsSpace(Head(s)) THEN trimStart(Tail(s)) ELSE s

RECURSIVE trimEnd(_)
trimEnd(s) ==
  IF s # <<>> /\ IsSpace(s[Len(s)]) THEN trimEnd(SubSeq(s, 1, Len(s) - 1)) ELSE s

trim(s) == trimEnd(trimStart(s))

(***************************************************************************)
(* normalizeCompanyName                                                    *)
(***************************************************************************)
\* the alternation of the suffix regular expression
LegalSuffixes ==
  { <<"i","n","c">>,
    <<"i","n","c","o","r","p","o","r","a","t","e","d">>,
    <<"l","l","c">>,
    <<"l","t","d">>,
    <<"l","i","m","i","t","e","d">>,
    <<"c","o","r","p">>,
    <<"c","o","r","p","o","r","a","t","i","o","n">>,
    <<"c","o">>,
    <<"c","o","m","p","a","n","y">> }

\* the last index of the run of \w characters that starts at i
RECURSIVE WordEnd(_, _)
WordEnd(s, i) ==
  IF i < Len(s) /\ IsWordChar(s[i + 1]) THEN WordEnd(s, i + 1) ELSE i

\* a suffix removed wherever its letters stand, inside a longer word too
RECURSIVE StripSuffixesAnywhere(_, _)
StripSuffixesAnywhere(s, i) ==
  IF i > Len(s) THEN <<>>
  ELSE LET found == { w \in LegalSuffixes :
                        /\ i + Len(w) - 1 <= Len(s)
                        /\ toLowerCase(SubSeq(s, i, i + Len(w) - 1)) = w }
       IN  IF found = {} THEN <<s[i]>> \o StripSuffixesAnywhere(s, i + 1)
           ELSE LET w == CHOOSE x \in found : \A y \in found : Len(x) <= Len(y)
                    j == i + Len(w) - 1
                IN  IF j < Len(s) /\ s[j + 1] = "."
                      THEN StripSuffixesAnywhere(s, j + 2)
                      ELSE StripSuffixesAnywhere(s, j + 1)

\* .replace(/\b(inc|...|company)\b\.?/gi, ''), scanning s from index i.
\* Every alternative is made of \w characters and stands between two \b, so
\* a match is a whole run of \w characters; the scan is at the start of a
\* run whenever it stands on a \w character.
RECURSIVE StripSuffixesFrom(_, _)
StripSuffixesFrom(s, i) ==
  IF i > Len(s) THEN <<>>
  ELSE IF ~IsWordChar(s[i]) THEN <<s[i]>> \o StripSuffixesFrom(s, i + 1)
  ELSE LET j == WordEnd(s, i)
           w == SubSeq(s, i, j)
       IN  IF toLowerCase(w) \in LegalSuffixes
             THEN IF j < Len(s) /\ s[j + 1] = "."
                    THEN StripSuffixesFrom(s, j + 2)
                    ELSE StripSuffixesFrom(s, j + 1)
             ELSE w \o StripSuffixesFrom(s, j + 1)

\* .replace(/[^\w\s]/g, '')
StripPunctuation(s) == SelectSeq(s, LAMBDA c : IsWordChar(c) \/ IsSpace(c))

\* .replace(/\s+/g, ' ')
RECURSIVE CollapseSpaces(_)
CollapseSpaces(s) ==
  IF s = <<>> THEN <<>>
  ELSE IF IsSpace(Head(s))
    THEN <<" ">> \o CollapseSpaces(trimStart(s))
    ELSE <<Head(s)>> \o CollapseSpaces(Tail(s))

\* the name lower-cased and trimmed only
normalizeLowerOnly(name) == trim(toLowerCase(name))

normalizeCompanyName(name) ==
  trim(CollapseSpaces(StripPunctuation(StripSuffixesFrom(toLowerCase(name), 1))))

(***************************************************************************)
(* diceCoefficient                                                         *)
(***************************************************************************)
\* str.toLowerCase().replace(/[^a-z0-9]/g, '')
Fold(str) == SelectSeq(toLowerCase(str), IsAlnumLower)

\* the Set of bigrams of s1 (a set: a repeated bigram is held once)
Bigrams(s) == { SubSeq(s, i, i + 1) : i \in 1 .. Len(s) - 1 }

\* the loop without the delete: every bigram of s2 found in the set counts
RECURSIVE CountMatchesKeep(_, _, _)
CountMatchesKeep(bigrams1, s2, i) ==
  IF i > Len(s2) - 1 THEN 0
  ELSE IF SubSeq(s2, i, i + 1) \in bigrams1
    THEN 1 + CountMatchesKeep(bigrams1, s2, i + 1)
    ELSE CountMatchesKeep(bigrams1, s2, i + 1)

\* the loop over the bigrams of s2 from index i: a hit is counted and its
\* bigram deleted from the set
RECURSIVE CountMatches(_, _, _)
CountMatches(bigrams1, s2, i) ==
  IF i > Len(s2) - 1 THEN 0
  ELSE LET bigram == SubSeq(s2, i, i + 1)
       IN  IF bigram \in bigrams1
             THEN 1 + CountMatches(bigrams1 \ {bigram}, s2, i + 1)
             ELSE CountMatches(bigrams1, s2, i + 1)

\* the function without its first return (s1 === s2)
diceWithoutShortcut(str1, str2) ==
  LET s1 == Fold(str1)
      s2 == Fold(str2)
  IN  IF Len(s1) < 2 \/ Len(s2) < 2 THEN <<0, 1>>
      ELSE <<2 * CountMatches(Bigrams(s1), s2, 1), Len(s1) + Len(s2) - 2>>

diceCoefficient(str1, str2) ==
  LET s1 == Fold(str1)
      s2 == Fold(str2)
  IN  IF s1 = s2 THEN <<1, 1>>
      ELSE IF Len(s1) < 2 \/ Len(s2) < 2 THEN <<0, 1>>
      ELSE <<2 * CountMatches(Bigrams(s1), s2, 1), Len(s1) + Len(s2) - 2>>

(***************************************************************************)
(* Rational arithmetic on scores                                           *)
(***************************************************************************)
RatGE(a, b) == a[1] * b[2] >= b[1] * a[2]

RatGT(a, b) == a[1] * b[2] > b[1] * a[2]

RatEQ(a, b) == a[1] * b[2] = b[1] * a[2]

RatMax(a, b) == IF RatGE(a, b) THEN a ELSE b

RatMin(a, b) == IF RatGE(a, b) THEN b ELSE a

RatAdd(a, b) == <<a[1] * b[2] + b[1] * a[2], a[2] * b[2]>>


(***************************************************************************)
(* Program constants                                                       *)
(***************************************************************************)
CACHE_TTL == 5 * 60 * 1000

DEDUP_TTL == 30 * 1000

RETRY_DELAY == 2000

STRATEGY_DELAY == 500

\* the relevance floor of .filter(m => m.score >= 0.5)
MIN_SCORE == <<1, 2>>

\* the auto-link threshold of bestMatch.score >= 0.55
AUTO_LINK_SCORE == <<55, 100>>

\* stateBonus = 0.1
STATE_BONUS == <<1, 10>>

\* .slice(0, 5)
SAMPLE_SIZE == 5

(***************************************************************************)
(* Bounds of the model                                                     *)
(***************************************************************************)
\* webhook requests received in one run
MaxRequests == 3

\* processCompanyCreation calls started in one run
MaxTasks == 3

\* processCompanyCreation calls in flight at one time
MaxInFlight == 2

\* Date.now() when the process starts
T0 == 1000

\* The instants at which the clock is observed, as offsets from T0.
\* Within one resolution: an instant inside each delay, besides the
\* instants at which the delays resolve.
DelayOffsets == { 0, STRATEGY_DELAY \div 2 }

\* Across resolutions: both sides of the time-to-live of a cache entry
CacheOffsets == { 0, CACHE_TTL - STRATEGY_DELAY, CACHE_TTL }

\* Across deliveries: both sides of the time-to-live of a dedup marker
DedupOffsets == { 0, DEDUP_TTL - STRATEGY_DELAY, DEDUP_TTL }

(***************************************************************************)
(* The environment: CRM companies and registry records                     *)
(***************************************************************************)
Acme == <<"A","c","m","e">>

Honeywell == <<"H","o","n","e","y","w","e","l","l">>

\* company.properties as getCompanyFromHubSpot returns them; an absent
\* property is the empty string (the code tests these by truthiness only)
CompanyProps(id) ==
  CASE id = 1 -> [ name   |-> Acme \o <<" ","I","n","c">>,
                   state  |-> <<"C","A">>,
                   domain |-> "acme.com" ]
    [] id = 2 -> [ name   |-> <<"A","C","M","E",","," ","I","n","c",".">>,
                   state  |-> <<"C","a","l","i","f","o","r","n","i","a">>,
                   domain |-> "acme.com" ]
    [] id = 3 -> [ name   |-> Acme,
                   state  |-> <<>>,
                   domain |-> "" ]
    [] id = 4 -> [ name   |-> <<>>,
                   state  |-> <<>>,
                   domain |-> "" ]
    [] id = 5 -> [ name   |-> <<"a","c","m","e"," ","L","L","C">>,
                   state  |-> <<>>,
                   domain |-> "" ]
    [] id = 6 -> [ name   |-> Honeywell,
                   state  |-> <<>>,
                   domain |-> "" ]
    [] OTHER  -> [ name   |-> <<"I","n","c",".">>,
                   state  |-> <<>>,
                   domain |-> "" ]

CompanyIds == 1 .. 7

Company == [ id \in CompanyIds |-> CompanyProps(id) ]

PortalId == 77

\* a raw registry record: entityRegistration.{ueiSAM, legalBusinessName,
\* dbaName} and coreData.physicalAddress.stateOrProvinceCode; an absent
\* dbaName or state code is the empty string
Entity(uei, legal, dba, st) ==
  [ ueiSAM |-> uei, legalBusinessName |-> legal, dbaName |-> dba,
    stateOrProvinceCode |-> st ]

Zenith == <<"Z","e","n","i","t","h">>

\* The records of the registry.  The state of the model holds a record as
\* its ueiSAM; Registry gives the record.
Registry ==
  [ u \in { "U1", "U2", "U3", "U4", "U5", "U6", "U7", "U8", "U9", "U10",
            "U11", "U12", "U13", "U14", "U15", "U16", "U17" } |->
      CASE u = "U1" -> Entity(u, Acme \o <<" ","L","a","b","s">>, <<>>, <<"C","A">>)
        [] u = "U2" -> Entity(u, Acme \o <<" ","T","o","o","l","s">>, <<>>, <<>>)
        [] u = "U3" -> Entity(u, Acme \o <<" ","S","u","p","p","l","y">>, <<>>, <<"T","X">>)
        [] u = "U4" -> Entity(u, Acme \o <<" ","H","o","l","d","i","n","g","s">>, <<>>, <<"C","A">>)
        [] u = "U5" -> Entity(u, Zenith, Acme \o <<" ","M","e","t","a","l","s">>, <<>>)
        [] u = "U6" -> Entity(u, Acme \o <<" ","D","e","p","o","t"," ","C","o",".">>, <<>>, <<>>)
        [] u = "U7" -> Entity(u, Acme \o <<" ","M","e","t","a","l","s">>, <<>>, <<>>)
        [] u = "U14" -> Entity(u, <<"A","C","M","E"," ","L","L","C">>, <<>>, <<"C","A">>)
        [] u = "U15" -> Entity(u, Honeywell \o <<" ","I","n","t","e","r","n","a","t","i","o","n","a","l"," ","I","n","c">>, <<>>, <<>>)
        [] u = "U16" -> Entity(u, <<"C","o",".",","," ","L","L","C">>, <<>>, <<>>)
        [] u = "U17" -> Entity(u, Honeywell \o <<" ","I","n","t","e","r","n","a","t","i","o","n","a","l"," ","L","L","C">>, <<>>, <<>>)
        [] OTHER    -> Entity(u, Zenith, <<>>, <<"C","A">>) ]

\* entityData arrays the registry (or the local table) may answer with
L_Match   == << "U8", "U2", "U1" >>

L_Pending == << "U3", "U5", "U7", "U4", "U8", "U2", "U6" >>

L_Low     == << "U8", "U9", "U10", "U11", "U12", "U13" >>

L_Exact   == << "U2", "U14" >>

L_Special == << "U15", "U16", "U17" >>

ResultLists == { <<>>, L_Match, L_Pending, L_Low, L_Exact, L_Special }

(***************************************************************************)
(* normalizeStateCode                                                      *)
(***************************************************************************)
\* STATE_ABBREVIATIONS, the entries for the states the model's companies use
STATE_ABBREVIATIONS(lower) ==
  CASE lower = <<"c","a","l","i","f","o","r","n","i","a">> -> <<"C","A">>
    [] lower = <<"t","e","x","a","s">>                     -> <<"T","X">>
    [] lower = <<"o","h","i","o">>                         -> <<"O","H">>
    [] OTHER                                               -> <<>>

normalizeStateCode(state) ==
  IF state = <<>> THEN <<>>
  ELSE LET trimmed == trim(state)
       IN  IF Len(trimmed) = 2 THEN toUpperCase(trimmed)
           ELSE IF STATE_ABBREVIATIONS(toLowerCase(trimmed)) # <<>>
             THEN STATE_ABBREVIATIONS(toLowerCase(trimmed))
             ELSE trimmed

(***************************************************************************)
(* Scoring and classification (processCompanyCreation)                     *)
(***************************************************************************)
normalizeSamEntity(raw) ==
  [ uei               |-> raw.ueiSAM,
    legalBusinessName |-> raw.legalBusinessName,
    dbaName           |-> raw.dbaName,
    physicalAddress   |-> [ stateOrProvinceCode |-> raw.stateOrProvinceCode ] ]

\* the score without Math.min(1, ...)
MatchScoreUnclamped(companyProps, entity) ==
  LET name       == normalizeCompanyName(companyProps.name)
      nameScore  == diceCoefficient(name, normalizeCompanyName(entity.legalBusinessName))
      dbaScore   == IF entity.dbaName # <<>>
                      THEN diceCoefficient(name, normalizeCompanyName(entity.dbaName))
                      ELSE <<0, 1>>
      stateBonus == IF /\ companyProps.state # <<>>
                       /\ entity.stateOrProvinceCode # <<>>
                       /\ toLowerCase(companyProps.state) =
                            toLowerCase(entity.stateOrProvinceCode)
                      THEN STATE_BONUS
                      ELSE <<0, 1>>
  IN  RatAdd(RatMax(nameScore, dbaScore), stateBonus)

\* a score whose bonus compares the state code that the retrieval uses
MatchScoreNormalizedState(companyProps, entity) ==
  LET normalized == normalizeSamEntity(entity)
      nameScore  == diceCoefficient(normalizeCompanyName(companyProps.name),
                                    normalizeCompanyName(normalized.legalBusinessName))
      dbaScore   == IF normalized.dbaName # <<>>
                      THEN diceCoefficient(normalizeCompanyName(companyProps.name),
                                           normalizeCompanyName(normalized.dbaName))
                      ELSE <<0, 1>>
      stateBonus == IF /\ companyProps.state # <<>>
                       /\ normalized.physicalAddress.stateOrProvinceCode # <<>>
                       /\ toLowerCase(normalizeStateCode(companyProps.state)) =
                            toLowerCase(normalized.physicalAddress.stateOrProvinceCode)
                      THEN STATE_BONUS
                      ELSE <<0, 1>>
  IN  RatMin(<<1, 1>>, RatAdd(RatMax(nameScore, dbaScore), stateBonus))

\* the score the .map callback computes for one entity
MatchScore(companyProps, entity) ==
  LET normalized == normalizeSamEntity(entity)
      nameScore  == diceCoefficient(normalizeCompanyName(companyProps.name),
                                    normalizeCompanyName(normalized.legalBusinessName))
      dbaScore   == IF normalized.dbaName # <<>>
                      THEN diceCoefficient(normalizeCompanyName(companyProps.name),
                                           normalizeCompanyName(normalized.dbaName))
                      ELSE <<0, 1>>
      stateBonus == IF /\ companyProps.state # <<>>
                       /\ normalized.physicalAddress.stateOrProvinceCode # <<>>
                       /\ toLowerCase(companyProps.state) =
                            toLowerCase(normalized.physicalAddress.stateOrProvinceCode)
                      THEN STATE_BONUS
                      ELSE <<0, 1>>
  IN  RatMin(<<1, 1>>, RatAdd(RatMax(nameScore, dbaScore), stateBonus))

\* the scores of the registry's records for each company
ScoreTable ==
  [ c \in CompanyIds |-> [ u \in DOMAIN Registry |-> MatchScore(Company[c], Registry[u]) ] ]

\* the .map callback: { entity, raw, score }, the entity held as its uei
ScoreEntity(companyId, uei) == [ uei |-> uei, score |-> ScoreTable[companyId][uei] ]

\* an insertion that puts m before the candidates of equal score
RECURSIVE InsertBeforeEqual(_, _)
InsertBeforeEqual(sorted, m) ==
  IF sorted = <<>> THEN <<m>>
  ELSE IF RatGE(m.score, Head(sorted).score)
    THEN <<m>> \o sorted
    ELSE <<Head(sorted)>> \o InsertBeforeEqual(Tail(sorted), m)

\* Array.prototype.sort with (a, b) => b.score - a.score: stable, descending
RECURSIVE InsertByScore(_, _)
InsertByScore(sorted, m) ==
  IF sorted = <<>> THEN <<m>>
  ELSE IF RatGT(m.score, Head(sorted).score)
    THEN <<m>> \o sorted
    ELSE <<Head(sorted)>> \o InsertByScore(Tail(sorted), m)

\* the candidates left in the order of retrieval
KeepOrder(ms) == ms

RECURSIVE SortByScore(_)
SortByScore(ms) ==
  IF ms = <<>> THEN <<>>
  ELSE InsertByScore(SortByScore(SubSeq(ms, 1, Len(ms) - 1)), ms[Len(ms)])

PassesFloor(m) == RatGE(m.score, MIN_SCORE)

Scored(companyId, samEntities) ==
  [ i \in DOMAIN samEntities |-> ScoreEntity(companyId, samEntities[i]) ]

\* const matches = samEntities.map(...).filter(...).sort(...)
Matches(companyId, samEntities) ==
  SortByScore(SelectSeq(Scored(companyId, samEntities), PassesFloor))

\* Array.prototype.slice(0, n)
Slice(s, n) == SubSeq(s, 1, IF Len(s) < n THEN Len(s) ELSE n)

\* the threshold of the earlier revision
IsAutoLinkOld(m) == RatGE(m.score, <<85, 100>>)

\* bestMatch.score >= 0.55
IsAutoLink(m) == RatGE(m.score, AUTO_LINK_SCORE)


(***************************************************************************)
(* State                                                                   *)
(***************************************************************************)
VARIABLES
  now,                      \* Date.now()
  useLocalDb,               \* USE_LOCAL_DB, fixed when the process starts
  searchCache,              \* cache key -> [data, timestamp]
  recentlyProcessed,        \* dedup key -> time of acceptance
  requests,                 \* the webhook requests received, in order
  tasks,                    \* the processCompanyCreation calls, in start order
  match_queue,              \* rows of table match_queue
  company_sam_associations, \* rows of table company_sam_associations
  sam_entities,             \* primary keys (uei) of table sam_entities
  sync_log,                 \* rows of table sync_log
  hubspot,                  \* company id -> the CRM property sam_uei
  call,                     \* a call of a helper function on its own
  search,                   \* the searchSamEntities request
  links,                    \* the linkSamEntity and unlinkSamEntity requests
  uniqueCompany,            \* company_sam_associations has a unique
                            \* constraint on hubspot_company_id
  clientSecret              \* HUBSPOT_CLIENT_SECRET, "" when it is not set

vars ==
  << now, useLocalDb, searchCache, recentlyProcessed, requests, tasks,
     match_queue, company_sam_associations, sam_entities, sync_log, hubspot,
     call, search, links, uniqueCompany, clientSecret >>

\* Map.prototype.set
MapSet(m, k, v) == [ x \in DOMAIN m \cup {k} |-> IF x = k THEN v ELSE m[x] ]

\* Map.prototype.has
MapHas(m, k) == k \in DOMAIN m

EmptyMap == [ x \in {} |-> 0 ]

(***************************************************************************)
(* Webhook handler: the loop over the events of one request                *)
(***************************************************************************)
\* the objectId of an event that has none (undefined)
NoObjectId == 0

Event(type, objectId, property) ==
  [ subscriptionType |-> type, objectId |-> objectId, portalId |-> PortalId,
    propertyName |-> property ]

Qualifies(event) ==
  \/ event.subscriptionType = "object.creation"
  \/ /\ event.subscriptionType = "object.propertyChange"
     /\ event.propertyName \in {"name", "domain"}

\* `${portalId}-${objectId}`
DedupKey(event) == << event.portalId, event.objectId >>

\* lastProcessed && Date.now() - lastProcessed < DEDUP_TTL
IsDuplicate(rp, key, t) ==
  MapHas(rp, key) /\ rp[key] # 0 /\ t - rp[key] < DEDUP_TTL

\* a loop that renews the marker when it skips an event
RECURSIVE ProcessEventsSliding(_, _, _, _, _)
ProcessEventsSliding(events, i, rp, accepted, t) ==
  IF i > Len(events) THEN [ rp |-> rp, accepted |-> accepted, threw |-> FALSE ]
  ELSE LET event == events[i]
           key   == DedupKey(event)
       IN  IF ~Qualifies(event)
             THEN ProcessEventsSliding(events, i + 1, rp, Append(accepted, FALSE), t)
           ELSE IF IsDuplicate(rp, key, t)
             THEN ProcessEventsSliding(events, i + 1, MapSet(rp, key, t),
                                       Append(accepted, FALSE), t)
             ELSE ProcessEventsSliding(events, i + 1, MapSet(rp, key, t),
                                       Append(accepted, TRUE), t)

\* the for loop from event i on: rp is recentlyProcessed so far, accepted
\* the flags of the events seen so far (TRUE: processCompanyCreation started).
\* objectId.toString() throws on an event without objectId, after the marker
\* is set: the loop ends there (threw) and the events left start nothing.
RECURSIVE ProcessEvents(_, _, _, _, _)
ProcessEvents(events, i, rp, accepted, t) ==
  IF i > Len(events) THEN [ rp |-> rp, accepted |-> accepted, threw |-> FALSE ]
  ELSE LET event == events[i]
           key   == DedupKey(event)
       IN  IF ~Qualifies(event) \/ IsDuplicate(rp, key, t)
             THEN ProcessEvents(events, i + 1, rp, Append(accepted, FALSE), t)
           ELSE IF event.objectId = NoObjectId
             THEN [ rp |-> MapSet(rp, key, t),
                    accepted |-> accepted \o [ j \in 1 .. Len(events) - i + 1 |-> FALSE ],
                    threw |-> TRUE ]
             ELSE ProcessEvents(events, i + 1, MapSet(rp, key, t),
                                Append(accepted, TRUE), t)

\* a processCompanyCreation call, up to its first await
NewTask(event, request) ==
  [ companyId |-> event.objectId, portalId |-> event.portalId,
    request |-> request, pc |-> "getCompany",
    strategy |-> 0, wakeAt |-> 0, fetches |-> <<>>, dbQueries |-> 0,
    returnedAt |-> 0, cacheHit |-> FALSE,
    samEntities |-> <<>>, matches |-> <<>> ]

\* processCompanyCreation has returned: its locals are gone, what
\* searchSamByName returned to it is kept
Finished(task) ==
  [ task EXCEPT !.pc = "done", !.strategy = 0, !.wakeAt = 0,
                !.fetches = <<>>, !.dbQueries = 0, !.matches = <<>> ]

RECURSIVE NewTasks(_, _, _, _)
NewTasks(events, accepted, i, request) ==
  IF i > Len(events) THEN <<>>
  ELSE IF accepted[i]
    THEN <<NewTask(events[i], request)>> \o NewTasks(events, accepted, i + 1, request)
    ELSE NewTasks(events, accepted, i + 1, request)


(***************************************************************************)
(* searchSamByName: cache                                                  *)
(***************************************************************************)
\* `${normalizedName}|${normalizedState || ''}|${domain || ''}`
CacheKey(companyProps) ==
  << normalizeCompanyName(companyProps.name),
     normalizeStateCode(companyProps.state),
     companyProps.domain >>

\* the cache key of each company
KeyOf == [ c \in CompanyIds |-> CacheKey(Company[c]) ]

\* an entry still served at the age of CACHE_TTL
CacheFreshInclusive(cache, key, t) ==
  MapHas(cache, key) /\ t - cache[key].timestamp <= CACHE_TTL

\* cached && Date.now() - cached.timestamp < CACHE_TTL
CacheFresh(cache, key, t) ==
  MapHas(cache, key) /\ t - cache[key].timestamp < CACHE_TTL

\* the code that runs when searchSamByName has returned samEntities, up to
\* the first await of a table write
Classified(task, samEntities) ==
  [ task EXCEPT
      !.samEntities = samEntities,
      !.matches = IF samEntities = <<>> THEN <<>>
                  ELSE Matches(task.companyId, samEntities),
      !.pc = "record" ]

\* the branch processCompanyCreation takes on samEntities and matches
Disposition(samEntities, matches) ==
  IF samEntities = <<>> THEN "no_match"
  ELSE IF matches = <<>> THEN "no_match"
  ELSE IF IsAutoLink(matches[1]) THEN "matched"
  ELSE "pending"

\* search_results without the slices
SearchResultsWhole(samEntities, matches) ==
  IF samEntities = <<>> THEN <<>>
  ELSE IF matches = <<>> THEN samEntities
  ELSE [ i \in DOMAIN matches |-> [ entity |-> matches[i].uei, score |-> matches[i].score ] ]

\* search_results of the row the branch inserts into match_queue
SearchResults(samEntities, matches) ==
  IF samEntities = <<>> THEN <<>>
  ELSE IF matches = <<>> THEN Slice(samEntities, SAMPLE_SIZE)
  ELSE LET top == Slice(matches, SAMPLE_SIZE)
       IN  [ i \in DOMAIN top |-> [ entity |-> top[i].uei, score |-> top[i].score ] ]

\* searchCache.set(cacheKey, { data: results, timestamp: Date.now() }) and
\* the return of searchSamByName
SearchReturn(t, task, results) ==
  /\ searchCache' = MapSet(searchCache, KeyOf[task.companyId],
                           [ data |-> results, timestamp |-> now ])
  /\ tasks' = [ tasks EXCEPT ![t] =
                  Classified([ task EXCEPT !.returnedAt = now ], results) ]

(***************************************************************************)
(* searchSamApi: the strategy chain                                        *)
(***************************************************************************)
\* the chain without the tests of the state and domain hints
NextStrategyNoHints(s, entityData, state, domain) ==
  IF entityData # <<>> THEN 0
  ELSE IF s < 4 THEN s + 1
  ELSE 0

\* a chain that sends strategy 4 again while it yields nothing
NextStrategyRepeatsLast(s, entityData, state, domain) ==
  IF entityData # <<>> THEN 0
  ELSE IF s < 2 /\ state # <<>> THEN 2
  ELSE IF s < 3 /\ domain # "" THEN 3
  ELSE 4

\* the chain run to its last strategy whatever a strategy yields
NextStrategyAll(s, entityData, state, domain) ==
  IF s < 2 /\ state # <<>> THEN 2
  ELSE IF s < 3 /\ domain # "" THEN 3
  ELSE IF s < 4 THEN 4
  ELSE 0

\* the strategy whose request follows strategy s having yielded entityData,
\* 0 when searchSamApi returns; state is the normalized state code
NextStrategy(s, entityData, state, domain) ==
  IF entityData # <<>> THEN 0
  ELSE IF s < 2 /\ state # <<>> THEN 2
  ELSE IF s < 3 /\ domain # "" THEN 3
  ELSE IF s < 4 THEN 4
  ELSE 0

\* fetch(url) is called for strategy s: the request is on its way
Sent(task, s) ==
  [ task EXCEPT !.fetches = Append(@, [ strategy |-> s, kind |-> "sent",
                                        entityData |-> <<>> ]),
                !.wakeAt = 0 ]

\* the request on its way has been answered by o
Answered(task, o) ==
  [ task EXCEPT !.fetches[Len(task.fetches)] =
      [ @ EXCEPT !.kind = o.kind, !.entityData = o.entityData ] ]

\* the first request of searchSamApi
StartApi(task) ==
  Sent([ task EXCEPT !.pc = "fetch", !.strategy = 1 ], 1)

\* samFetch has returned entityData for the current strategy of task
AfterStrategy(t, task, entityData) ==
  LET props == Company[task.companyId]
      next  == NextStrategy(task.strategy, entityData,
                            normalizeStateCode(props.state), props.domain)
  IN  IF next = 0
        THEN SearchReturn(t, task, entityData)
        ELSE /\ tasks' = [ tasks EXCEPT ![t] =
                             [ task EXCEPT !.pc = "stratDelay", !.strategy = next,
                                           !.wakeAt = now + STRATEGY_DELAY ] ]
             /\ UNCHANGED searchCache

\* searchSamLocalDb has returned results
AfterLocal(t, results) ==
  IF results = <<>>
    THEN /\ tasks' = [ tasks EXCEPT ![t] = StartApi(@) ]
         /\ UNCHANGED searchCache
    ELSE SearchReturn(t, tasks[t], results)

(***************************************************************************)
(* Answers of the collaborators                                            *)
(***************************************************************************)
\* a response of the registry to fetch: ok with entityData, ok without the
\* entityData field, a non-OK status other than 429, status 429, or no
\* response at all (fetch or response.json() rejects)
FetchOutcomes(lists) ==
  { [ kind |-> "ok", entityData |-> l ] : l \in lists } \cup
  { [ kind |-> k, entityData |-> <<>> ] : k \in {"noData", "error", "limited", "throw"} }

\* an answer of the local table: { data }, { error } or an exception
DbOutcomes(lists) ==
  { [ kind |-> "ok", data |-> l ] : l \in lists } \cup
  { [ kind |-> k, data |-> <<>> ] : k \in {"error", "throw"} }

(***************************************************************************)
(* Actions                                                                 *)
(***************************************************************************)
tables == << match_queue, company_sam_associations, sam_entities, sync_log, hubspot >>

\* a call of helper fn on the strings args, before it returns
Call(fn, args) ==
  [ fn |-> fn, args |-> args, result |-> <<>>, returned |-> FALSE, again |-> FALSE ]

\* no helper is called on its own
NoCall == Call("none", <<>>)

\* a searchSamEntities request at position pc of the handler: the company
\* asked for, what the two searches returned, the status and the matches of
\* the response
SearchAt(pc, companyId) ==
  [ pc |-> pc, companyId |-> companyId, samEntities |-> <<>>,
    broadResults |-> <<>>, status |-> 0, matches |-> <<>> ]

\* no searchSamEntities request has been received
NoSearch == SearchAt("idle", 0)

\* process.env.HUBSPOT_CLIENT_SECRET of a configured deployment, and of one
\* where the variable is not set
Secret == "s3cret"

NoSecret == ""

\* what the actions of the webhook leave alone
aside == << call, search, links, uniqueCompany, clientSecret >>

Init ==
  /\ now = T0
  /\ useLocalDb \in BOOLEAN
  /\ searchCache = EmptyMap
  /\ recentlyProcessed = EmptyMap
  /\ requests = <<>>
  /\ tasks = <<>>
  /\ match_queue = {}
  /\ company_sam_associations = {}
  /\ sam_entities = {}
  /\ sync_log = {}
  /\ hubspot = [ c \in CompanyIds |-> "" ]
  /\ call = NoCall
  /\ search = NoSearch
  /\ links = <<>>
  /\ uniqueCompany = FALSE
  /\ clientSecret = Secret

\* the instants T0 + d, d in offsets
Grid(offsets) == { T0 + d : d \in offsets }

\* the instants at which a pending delay() resolves
Deadlines == { tasks[t].wakeAt : t \in DOMAIN tasks }

\* time passes, to the next of instants
Tick(instants) ==
  /\ UNCHANGED aside
  /\ \E i \in instants : i > now
  /\ now' = CHOOSE i \in instants : i > now /\ \A j \in instants : j > now => i <= j
  /\ UNCHANGED << useLocalDb, searchCache, recentlyProcessed, requests, tasks, tables >>

InFlight == Cardinality({ t \in DOMAIN tasks : tasks[t].pc # "done" })

\* handler: a POST that passes the signature test, with the events of batch;
\* the loop runs to the await of
\* Promise.all, or to the catch block and res.status(500) when it throws
Receive(batch) ==
  /\ UNCHANGED aside
  /\ Len(requests) < MaxRequests
  /\ LET r   == ProcessEvents(batch, 1, recentlyProcessed, <<>>, now)
         new == NewTasks(batch, r.accepted, 1, Len(requests) + 1)
     IN  /\ Len(tasks) + Len(new) <= MaxTasks
         /\ InFlight + Len(new) <= MaxInFlight
         /\ recentlyProcessed' = r.rp
         /\ tasks' = tasks \o new
         /\ requests' = Append(requests,
                          [ events |-> batch, accepted |-> r.accepted,
                            receivedAt |-> now,
                            status |-> IF r.threw THEN 500 ELSE 0 ])
  /\ UNCHANGED << now, useLocalDb, searchCache, tables >>

\* crypto.createHmac('sha256', key).update(source).digest('base64'): equal
\* digests stand for equal keys and equal sources
Hmac(key, source) == << key, source >>

\* `${requestMethod}${requestUri}${requestBody}${timestamp}`
SourceString(requestMethod, requestUri, requestBody, timestamp) ==
  << requestMethod, requestUri, requestBody, timestamp >>

\* a verification that leaves the body out of the signed string
verifySignatureNoBody(requestBody, signature, secret, requestMethod, requestUri, timestamp) ==
  \E body \in { requestBody, signature[2][3] } :
    Hmac(secret, SourceString(requestMethod, requestUri, body, timestamp)) = signature

verifySignature(requestBody, signature, secret, requestMethod, requestUri, timestamp) ==
  Hmac(secret, SourceString(requestMethod, requestUri, requestBody, timestamp)) = signature

\* `${protocol}://${host}${req.url}` of the deployment
FullUrl == "https://sam-uei-hubspot-app.vercel.app/api/webhooks/company"

\* a header that the request does not carry
NoHeader == <<>>

\* handler, from its first line: a request with method, the headers
\* x-hubspot-signature-v3 and x-hubspot-request-timestamp and the body batch
Deliver(method, signature, timestamp, batch) ==
  /\ UNCHANGED aside
  /\ Len(requests) < MaxRequests
  /\ LET r   == ProcessEvents(batch, 1, recentlyProcessed, <<>>, now)
         new == NewTasks(batch, r.accepted, 1, Len(requests) + 1)
         Answer(status) ==
           /\ requests' = Append(requests,
                            [ events |-> batch,
                              accepted |-> [ i \in DOMAIN batch |-> FALSE ],
                              receivedAt |-> now, status |-> status,
                              method |-> method, signature |-> signature,
                              timestamp |-> timestamp ])
           /\ UNCHANGED << recentlyProcessed, tasks >>
     IN  IF method # "POST" THEN Answer(405)
         ELSE IF /\ signature # NoHeader
                 /\ timestamp # NoHeader
                 /\ clientSecret # NoSecret
                 /\ ~verifySignature(batch, signature, clientSecret, "POST",
                                     FullUrl, timestamp)
           THEN Answer(401)
         ELSE /\ Len(tasks) + Len(new) <= MaxTasks
              /\ InFlight + Len(new) <= MaxInFlight
              /\ recentlyProcessed' = r.rp
              /\ tasks' = tasks \o new
              /\ requests' = Append(requests,
                               [ events |-> batch, accepted |-> r.accepted,
                                 receivedAt |-> now,
                                 status |-> IF r.threw THEN 500 ELSE 0,
                                 method |-> method, signature |-> signature,
                                 timestamp |-> timestamp ])
  /\ UNCHANGED << now, useLocalDb, searchCache, tables >>

\* handler: Promise.all has resolved, res.status(200)
Respond(r) ==
  /\ UNCHANGED aside
  /\ requests[r].status = 0
  /\ \A t \in DOMAIN tasks : tasks[t].request = r => tasks[t].pc = "done"
  /\ requests' = [ requests EXCEPT ![r].status = 200 ]
  /\ UNCHANGED << now, useLocalDb, searchCache, recentlyProcessed, tasks, tables >>

\* getCompanyFromHubSpot has settled; on success the name check and
\* searchSamByName up to its first await
CompanyFetched(t, ok) ==
  /\ UNCHANGED aside
  /\ tasks[t].pc = "getCompany"
  /\ LET props == Company[tasks[t].companyId]
         key   == KeyOf[tasks[t].companyId]
     IN  tasks' = [ tasks EXCEPT ![t] =
           IF ~ok THEN [ @ EXCEPT !.pc = "catch" ]
           ELSE IF props.name = <<>> THEN Finished(@)
           ELSE IF CacheFresh(searchCache, key, now)
             THEN Classified([ @ EXCEPT !.cacheHit = TRUE, !.returnedAt = now ],
                             searchCache[key].data)
           ELSE IF useLocalDb
             THEN [ @ EXCEPT !.pc = "rpc", !.dbQueries = @ + 1 ]
             ELSE StartApi(@) ]
  /\ UNCHANGED << now, useLocalDb, searchCache, recentlyProcessed, requests, tables >>

\* searchSamLocalDb: supabase.rpc('search_sam_entities') has settled
LocalRpcDone(t, o) ==
  /\ UNCHANGED aside
  /\ tasks[t].pc = "rpc"
  /\ IF o.kind = "error"
       THEN /\ tasks' = [ tasks EXCEPT ![t] =
                            [ @ EXCEPT !.pc = "basic", !.dbQueries = @ + 1 ] ]
            /\ UNCHANGED searchCache
       ELSE AfterLocal(t, IF o.kind = "ok" THEN o.data ELSE <<>>)
  /\ UNCHANGED << now, useLocalDb, recentlyProcessed, requests, tables >>

\* searchSamLocalDbBasic: the query has settled
LocalBasicDone(t, o) ==
  /\ UNCHANGED aside
  /\ tasks[t].pc = "basic"
  /\ AfterLocal(t, IF o.kind = "ok" THEN o.data ELSE <<>>)
  /\ UNCHANGED << now, useLocalDb, recentlyProcessed, requests, tables >>

\* samFetch: the first fetch of the current strategy has settled
SamResponse(t, o) ==
  /\ UNCHANGED aside
  /\ tasks[t].pc = "fetch"
  /\ LET task == Answered(tasks[t], o)
     IN  CASE o.kind = "throw" ->
                /\ tasks' = [ tasks EXCEPT ![t] = [ task EXCEPT !.pc = "catch" ] ]
                /\ UNCHANGED searchCache
           [] o.kind = "limited" ->
                /\ tasks' = [ tasks EXCEPT ![t] =
                                [ task EXCEPT !.pc = "retryDelay",
                                              !.wakeAt = now + RETRY_DELAY ] ]
                /\ UNCHANGED searchCache
           [] OTHER -> AfterStrategy(t, task, o.entityData)
  /\ UNCHANGED << now, useLocalDb, recentlyProcessed, requests, tables >>

\* samFetch: delay(2000) has elapsed, the retry is sent
RetryIssue(t) ==
  /\ UNCHANGED aside
  /\ tasks[t].pc = "retryDelay"
  /\ now >= tasks[t].wakeAt
  /\ tasks' = [ tasks EXCEPT ![t] =
                  Sent([ @ EXCEPT !.pc = "retryFetch" ], @.strategy) ]
  /\ UNCHANGED << now, useLocalDb, searchCache, recentlyProcessed, requests, tables >>

\* a retry that is itself retried on status 429
RetryResponseAgain(t, o) ==
  /\ UNCHANGED aside
  /\ tasks[t].pc = "retryFetch"
  /\ LET task == Answered(tasks[t], o)
     IN  CASE o.kind = "throw" ->
                /\ tasks' = [ tasks EXCEPT ![t] = [ task EXCEPT !.pc = "catch" ] ]
                /\ UNCHANGED searchCache
           [] o.kind = "limited" ->
                /\ tasks' = [ tasks EXCEPT ![t] =
                                [ task EXCEPT !.pc = "retryDelay",
                                              !.wakeAt = now + RETRY_DELAY ] ]
                /\ UNCHANGED searchCache
           [] o.kind = "error" -> AfterStrategy(t, task, <<>>)
           [] OTHER -> AfterStrategy(t, task, o.entityData)
  /\ UNCHANGED << now, useLocalDb, recentlyProcessed, requests, tables >>

\* samFetch: the retry has settled
RetryResponse(t, o) ==
  /\ UNCHANGED aside
  /\ tasks[t].pc = "retryFetch"
  /\ LET task == Answered(tasks[t], o)
     IN  CASE o.kind = "throw" ->
                /\ tasks' = [ tasks EXCEPT ![t] = [ task EXCEPT !.pc = "catch" ] ]
                /\ UNCHANGED searchCache
           [] o.kind \in {"error", "limited"} -> AfterStrategy(t, task, <<>>)
           [] OTHER -> AfterStrategy(t, task, o.entityData)
  /\ UNCHANGED << now, useLocalDb, recentlyProcessed, requests, tables >>

\* searchSamApi: delay(500) has elapsed, the next strategy's request is sent
StrategyIssue(t) ==
  /\ UNCHANGED aside
  /\ tasks[t].pc = "stratDelay"
  /\ now >= tasks[t].wakeAt
  /\ tasks' = [ tasks EXCEPT ![t] =
                  Sent([ @ EXCEPT !.pc = "fetch" ], @.strategy) ]
  /\ UNCHANGED << now, useLocalDb, searchCache, recentlyProcessed, requests, tables >>

\* company_sam_associations after .insert(row): with the unique constraint a
\* second row for a company is rejected; the error is returned, not thrown,
\* and the code does not read it
InsertAssociation(rows, row) ==
  IF uniqueCompany /\ \E r \in rows : r.hubspot_company_id = row.hubspot_company_id
    THEN rows
    ELSE rows \cup {row}

\* company_sam_associations after .upsert(row, { onConflict:
\* 'hubspot_company_id' }): the row of the company is replaced; without the
\* unique constraint ON CONFLICT has nothing to refer to and the statement
\* fails, the error is logged only
UpsertAssociation(rows, row) ==
  IF uniqueCompany
    THEN { r \in rows : r.hubspot_company_id # row.hubspot_company_id } \cup {row}
    ELSE rows

\* the table writes of branch d of processCompanyCreation
WriteBranch(t, d) ==
  /\ LET task == tasks[t]
     IN  IF d = "matched"
           THEN /\ sam_entities' = sam_entities \cup { task.matches[1].uei }
                /\ company_sam_associations' =
                     InsertAssociation(company_sam_associations,
                       [ task |-> t, hubspot_company_id |-> task.companyId,
                         sam_uei |-> task.matches[1].uei,
                         match_type |-> "automatic",
                         match_score |-> task.matches[1].score ])
                /\ tasks' = [ tasks EXCEPT ![t] = [ @ EXCEPT !.pc = "crmUpdate" ] ]
                /\ UNCHANGED match_queue
           ELSE /\ match_queue' = match_queue \cup
                     { [ task |-> t, hubspot_company_id |-> task.companyId,
                         status |-> d,
                         search_results |-> SearchResults(task.samEntities, task.matches) ] }
                /\ tasks' = [ tasks EXCEPT ![t] = Finished(@) ]
                /\ UNCHANGED << sam_entities, company_sam_associations >>
  /\ UNCHANGED << now, useLocalDb, searchCache, recentlyProcessed, requests,
                  sync_log, hubspot >>

\* processCompanyCreation: the table writes of the branch taken
Record(t) ==
  /\ UNCHANGED aside
  /\ tasks[t].pc = "record"
  /\ WriteBranch(t, Disposition(tasks[t].samEntities, tasks[t].matches))

\* updateHubSpotCompany has settled
CrmUpdated(t, ok) ==
  /\ UNCHANGED aside
  /\ tasks[t].pc = "crmUpdate"
  /\ IF ok
       THEN /\ hubspot' = [ hubspot EXCEPT ![tasks[t].companyId] =
                              tasks[t].matches[1].uei ]
            /\ tasks' = [ tasks EXCEPT ![t] = [ @ EXCEPT !.pc = "syncLog" ] ]
       ELSE /\ tasks' = [ tasks EXCEPT ![t] = [ @ EXCEPT !.pc = "catch" ] ]
            /\ UNCHANGED hubspot
  /\ UNCHANGED << now, useLocalDb, searchCache, recentlyProcessed, requests,
                  match_queue, company_sam_associations, sam_entities, sync_log >>

\* the sync_log row of the auto-link
SyncLogged(t) ==
  /\ UNCHANGED aside
  /\ tasks[t].pc = "syncLog"
  /\ sync_log' = sync_log \cup
       { [ task |-> t, hubspot_company_id |-> tasks[t].companyId,
           action |-> "auto_match", status |-> "success" ] }
  /\ tasks' = [ tasks EXCEPT ![t] = Finished(@) ]
  /\ UNCHANGED << now, useLocalDb, searchCache, recentlyProcessed, requests,
                  match_queue, company_sam_associations, sam_entities, hubspot >>

\* a catch block that also deletes the dedup marker of the company
ErrorLoggedForgets(t) ==
  /\ UNCHANGED aside
  /\ tasks[t].pc = "catch"
  /\ sync_log' = sync_log \cup
       { [ task |-> t, hubspot_company_id |-> tasks[t].companyId,
           action |-> "webhook_process", status |-> "error" ] }
  /\ tasks' = [ tasks EXCEPT ![t] = Finished(@) ]
  /\ recentlyProcessed' =
       [ k \in DOMAIN recentlyProcessed \ { << tasks[t].portalId, tasks[t].companyId >> }
           |-> recentlyProcessed[k] ]
  /\ UNCHANGED << now, useLocalDb, searchCache, requests,
                  match_queue, company_sam_associations, sam_entities, hubspot >>

\* the catch block of processCompanyCreation
ErrorLogged(t) ==
  /\ UNCHANGED aside
  /\ tasks[t].pc = "catch"
  /\ sync_log' = sync_log \cup
       { [ task |-> t, hubspot_company_id |-> tasks[t].companyId,
           action |-> "webhook_process", status |-> "error" ] }
  /\ tasks' = [ tasks EXCEPT ![t] = Finished(@) ]
  /\ UNCHANGED << now, useLocalDb, searchCache, recentlyProcessed, requests,
                  match_queue, company_sam_associations, sam_entities, hubspot >>


(***************************************************************************)
(* The earlier revision of the webhook, api/webhooks/company.ts: no cache, *)
(* no dedup, a search of one or two requests without retry; the scoring    *)
(* and the table writes are those above, the auto-link threshold differs.  *)
(***************************************************************************)
\* bestMatch.score >= 0.85
LegacyIsAutoLink(m) == RatGE(m.score, <<85, 100>>)

LegacyDisposition(samEntities, matches) ==
  IF samEntities = <<>> THEN "no_match"
  ELSE IF matches = <<>> THEN "no_match"
  ELSE IF LegacyIsAutoLink(matches[1]) THEN "matched"
  ELSE "pending"

RECURSIVE LegacyNewTasks(_, _, _)
LegacyNewTasks(events, i, request) ==
  IF i > Len(events) THEN <<>>
  ELSE IF Qualifies(events[i])
    THEN << [ NewTask(events[i], request) EXCEPT !.pc = "legacyGetCompany" ] >>
           \o LegacyNewTasks(events, i + 1, request)
    ELSE LegacyNewTasks(events, i + 1, request)

\* handler: a POST with the events of batch, to the await of Promise.all
LegacyReceive(batch) ==
  /\ UNCHANGED aside
  /\ Len(requests) < MaxRequests
  /\ LET new == LegacyNewTasks(batch, 1, Len(requests) + 1)
     IN  /\ Len(tasks) + Len(new) <= MaxTasks
         /\ InFlight + Len(new) <= MaxInFlight
         /\ tasks' = tasks \o new
         /\ requests' = Append(requests,
                          [ events |-> batch,
                            accepted |-> [ i \in DOMAIN batch |-> Qualifies(batch[i]) ],
                            receivedAt |-> now, status |-> 0 ])
  /\ UNCHANGED << now, useLocalDb, searchCache, recentlyProcessed, tables >>

\* getCompanyFromHubSpot has settled; on success the name check and the
\* first request of searchSamByName
LegacyCompanyFetched(t, ok) ==
  /\ UNCHANGED aside
  /\ tasks[t].pc = "legacyGetCompany"
  /\ tasks' = [ tasks EXCEPT ![t] =
       IF ~ok THEN [ @ EXCEPT !.pc = "catch" ]
       ELSE IF Company[@.companyId].name = <<>> THEN Finished(@)
       ELSE Sent([ @ EXCEPT !.pc = "legacyFetch", !.strategy = 1 ], 1) ]
  /\ UNCHANGED << now, useLocalDb, searchCache, recentlyProcessed, requests, tables >>

\* searchSamByName returns results: the scoring, up to the first table write
LegacySearchReturn(t, task, results) ==
  tasks' = [ tasks EXCEPT ![t] =
    [ Classified([ task EXCEPT !.returnedAt = now ], results)
        EXCEPT !.pc = "legacyRecord" ] ]

\* searchSamByName: the request with the state filter (if any) has settled
LegacySamResponse(t, o) ==
  /\ UNCHANGED aside
  /\ tasks[t].pc = "legacyFetch"
  /\ LET task == Answered(tasks[t], o)
     IN  CASE o.kind = "throw" ->
                tasks' = [ tasks EXCEPT ![t] = [ task EXCEPT !.pc = "catch" ] ]
           [] o.kind \in {"error", "limited"} -> LegacySearchReturn(t, task, <<>>)
           [] OTHER ->
                IF o.entityData = <<>> /\ Company[task.companyId].state # <<>>
                  THEN tasks' = [ tasks EXCEPT ![t] =
                         Sent([ task EXCEPT !.pc = "legacyFetch2", !.strategy = 2 ], 2) ]
                  ELSE LegacySearchReturn(t, task, o.entityData)
  /\ UNCHANGED << now, useLocalDb, searchCache, recentlyProcessed, requests, tables >>

\* searchSamByName: the request without the state filter has settled
LegacySamResponse2(t, o) ==
  /\ UNCHANGED aside
  /\ tasks[t].pc = "legacyFetch2"
  /\ LET task == Answered(tasks[t], o)
     IN  CASE o.kind = "throw" ->
                tasks' = [ tasks EXCEPT ![t] = [ task EXCEPT !.pc = "catch" ] ]
           [] o.kind \in {"error", "limited"} -> LegacySearchReturn(t, task, <<>>)
           [] OTHER -> LegacySearchReturn(t, task, o.entityData)
  /\ UNCHANGED << now, useLocalDb, searchCache, recentlyProcessed, requests, tables >>

\* processCompanyCreation: the table writes of the branch taken
LegacyRecord(t) ==
  /\ UNCHANGED aside
  /\ tasks[t].pc = "legacyRecord"
  /\ WriteBranch(t, LegacyDisposition(tasks[t].samEntities, tasks[t].matches))


(***************************************************************************)
(* Specifications                                                          *)
(***************************************************************************)
Created(c) == Event("object.creation", c, "")

Changed(c, property) == Event("object.propertyChange", c, property)

\* every answer the registry and the local table can give
AnyFetch == FetchOutcomes(ResultLists)

AnyDb == DbOutcomes(ResultLists)

\* answers with one entityData array
SomeFetch ==
  { o \in FetchOutcomes({ L_Match }) : o.kind \in {"ok", "error", "limited"} }

SomeDb == { o \in DbOutcomes({ L_Match }) : o.kind \in {"ok", "error"} }

\* One resolution: a single event for any company, every answer of the
\* collaborators, the clock observed around each delay.
NextResolve ==
  \/ Tick(Grid(DelayOffsets) \cup Deadlines)
  \/ \E c \in CompanyIds : requests = <<>> /\ Receive(<< Created(c) >>)
  \/ \E r \in DOMAIN requests : Respond(r)
  \/ \E t \in DOMAIN tasks, ok \in BOOLEAN : CompanyFetched(t, ok)
  \/ \E t \in DOMAIN tasks, o \in AnyDb : LocalRpcDone(t, o)
  \/ \E t \in DOMAIN tasks, o \in AnyDb : LocalBasicDone(t, o)
  \/ \E t \in DOMAIN tasks, o \in AnyFetch : SamResponse(t, o)
  \/ \E t \in DOMAIN tasks : RetryIssue(t)
  \/ \E t \in DOMAIN tasks, o \in AnyFetch : RetryResponse(t, o)
  \/ \E t \in DOMAIN tasks : StrategyIssue(t)
  \/ \E t \in DOMAIN tasks : Record(t)
  \/ \E t \in DOMAIN tasks, ok \in BOOLEAN : CrmUpdated(t, ok)
  \/ \E t \in DOMAIN tasks : SyncLogged(t)
  \/ \E t \in DOMAIN tasks : ErrorLogged(t)

SpecResolve == Init /\ [][NextResolve]_vars

\* One resolution in which time passes, every delay() resolves and every
\* request to the registry is answered (or fails).
SpecResolveFair ==
  /\ SpecResolve
  /\ WF_vars(Tick(Grid(DelayOffsets) \cup Deadlines))
  /\ WF_vars(\E t \in DOMAIN tasks, o \in AnyFetch : SamResponse(t, o))
  /\ WF_vars(\E t \in DOMAIN tasks : RetryIssue(t))
  /\ WF_vars(\E t \in DOMAIN tasks, o \in AnyFetch : RetryResponse(t, o))
  /\ WF_vars(\E t \in DOMAIN tasks : StrategyIssue(t))

\* One resolution by either revision of the webhook.
NextLegacy ==
  \/ \E c \in CompanyIds : requests = <<>> /\ LegacyReceive(<< Created(c) >>)
  \/ \E t \in DOMAIN tasks, ok \in BOOLEAN : LegacyCompanyFetched(t, ok)
  \/ \E t \in DOMAIN tasks, o \in AnyFetch : LegacySamResponse(t, o)
  \/ \E t \in DOMAIN tasks, o \in AnyFetch : LegacySamResponse2(t, o)
  \/ \E t \in DOMAIN tasks : LegacyRecord(t)

NextReadme == NextResolve \/ NextLegacy

SpecReadme == Init /\ [][NextReadme]_vars

\* Resolutions that share a cache key (companies 3 and 5), alone and in one
\* batch, the clock observed around the time-to-live of a cache entry.
CacheBatches == { << Created(3) >>, << Created(5) >>, << Created(3), Created(5) >> }

Next ==
  \/ Tick(Grid(CacheOffsets))
  \/ \E b \in CacheBatches : Len(requests) < MaxRequests - 1 /\ Receive(b)
  \/ \E r \in DOMAIN requests : Respond(r)
  \/ \E t \in DOMAIN tasks, ok \in BOOLEAN : CompanyFetched(t, ok)
  \/ \E t \in DOMAIN tasks, o \in SomeDb : LocalRpcDone(t, o)
  \/ \E t \in DOMAIN tasks, o \in SomeDb : LocalBasicDone(t, o)
  \/ \E t \in DOMAIN tasks, o \in SomeFetch : SamResponse(t, o)
  \/ \E t \in DOMAIN tasks : RetryIssue(t)
  \/ \E t \in DOMAIN tasks, o \in SomeFetch : RetryResponse(t, o)
  \/ \E t \in DOMAIN tasks : StrategyIssue(t)
  \/ \E t \in DOMAIN tasks : Record(t)
  \/ \E t \in DOMAIN tasks, ok \in BOOLEAN : CrmUpdated(t, ok)
  \/ \E t \in DOMAIN tasks : SyncLogged(t)
  \/ \E t \in DOMAIN tasks : ErrorLogged(t)

Spec == Init /\ [][Next]_vars

\* Deliveries for two companies, alone and several in one batch, the clock
\* observed around the time-to-live of a dedup marker.
DedupBatches ==
  { << Created(3) >>,
    << Changed(3, "phone"), Changed(3, "name"), Changed(3, "domain") >>,
    << Created(4) >> }

NextDedup ==
  \/ Tick(Grid(DedupOffsets))
  \/ \E b \in DedupBatches : Receive(b)
  \/ \E r \in DOMAIN requests : Respond(r)
  \/ \E t \in DOMAIN tasks, ok \in BOOLEAN : CompanyFetched(t, ok)
  \/ \E t \in DOMAIN tasks, o \in SomeDb : LocalRpcDone(t, o)
  \/ \E t \in DOMAIN tasks, o \in SomeDb : LocalBasicDone(t, o)
  \/ \E t \in DOMAIN tasks, o \in SomeFetch : SamResponse(t, o)
  \/ \E t \in DOMAIN tasks : RetryIssue(t)
  \/ \E t \in DOMAIN tasks, o \in SomeFetch : RetryResponse(t, o)
  \/ \E t \in DOMAIN tasks : StrategyIssue(t)
  \/ \E t \in DOMAIN tasks : Record(t)
  \/ \E t \in DOMAIN tasks, ok \in BOOLEAN : CrmUpdated(t, ok)
  \/ \E t \in DOMAIN tasks : SyncLogged(t)
  \/ \E t \in DOMAIN tasks : ErrorLogged(t)

SpecDedup == Init /\ [][NextDedup]_vars


\* One batch of two events, the second one possibly without objectId.
BatchBatches ==
  { << Created(3), Created(5) >>,
    << Created(3), Created(NoObjectId) >>,
    << Created(NoObjectId), Created(3) >> }

NextBatch ==
  \/ Tick(Grid(DelayOffsets) \cup Deadlines)
  \/ \E b \in BatchBatches : requests = <<>> /\ Receive(b)
  \/ \E r \in DOMAIN requests : Respond(r)
  \/ \E t \in DOMAIN tasks, ok \in BOOLEAN : CompanyFetched(t, ok)
  \/ \E t \in DOMAIN tasks, o \in SomeDb : LocalRpcDone(t, o)
  \/ \E t \in DOMAIN tasks, o \in SomeDb : LocalBasicDone(t, o)
  \/ \E t \in DOMAIN tasks, o \in SomeFetch : SamResponse(t, o)
  \/ \E t \in DOMAIN tasks : RetryIssue(t)
  \/ \E t \in DOMAIN tasks, o \in SomeFetch : RetryResponse(t, o)
  \/ \E t \in DOMAIN tasks : StrategyIssue(t)
  \/ \E t \in DOMAIN tasks : Record(t)
  \/ \E t \in DOMAIN tasks, ok \in BOOLEAN : CrmUpdated(t, ok)
  \/ \E t \in DOMAIN tasks : SyncLogged(t)
  \/ \E t \in DOMAIN tasks : ErrorLogged(t)

SpecBatch == Init /\ [][NextBatch]_vars


(***************************************************************************)
(* The helper functions called on their own (SpecCalls)                    *)
(***************************************************************************)
\* the strings of at most n characters out of chars
Strings(chars, n) == UNION { [ 1 .. k -> chars ] : k \in 0 .. n }

\* the longest generated company name, and the characters it is made of: a
\* legal suffix (co), a letter and a digit, an upper-case letter, and
\* underscore, space, period and hyphen
MaxNameLen == 4

NameChars == { "c", "o", "C", "x", "1", "_", " ", ".", "-" }

\* the longest generated argument of diceCoefficient and its characters
MaxDiceLen == 4

DiceChars == { "a", "B", "-" }

IncorporateSystemsInc == <<"I","n","c","o","r","p","o","r","a","t","e"," ","S","y","s","t","e","m","s"," ","I","n","c">>

AcmeCo == <<"A","c","m","e"," ","C","o">>

AcmeCompany == <<"A","c","m","e"," ","C","o","m","p","a","n","y">>

HoneywellInternationalInc == Registry["U15"].legalBusinessName

SampleNames ==
  { IncorporateSystemsInc, AcmeCo, AcmeCompany, Honeywell,
    HoneywellInternationalInc, Company[2].name, Company[7].name,
    Registry["U16"].legalBusinessName, Registry["U6"].legalBusinessName }

NormalizeCalls ==
  { Call("normalizeCompanyName", << name >>) :
      name \in Strings(NameChars, MaxNameLen) \cup SampleNames }

DiceCalls ==
  { Call("diceCoefficient", << str1, str2 >>) :
      str1 \in Strings(DiceChars, MaxDiceLen), str2 \in Strings(DiceChars, MaxDiceLen) }

\* the state property of a company in California: absent, the code in both
\* cases, the code after a space, the full name
StateHints ==
  { <<>>, <<"C","A">>, <<"c","a">>, <<" ","C","A">>, Company[2].state }

\* the name and state arguments of searchSamByName, without a domain
KeyCalls ==
  { Call("cacheKey", << name, state >>) :
      name \in { AcmeCo, Acme }, state \in StateHints }

\* the arguments of the .map callback: the name and state of the company,
\* legalBusinessName, dbaName and stateOrProvinceCode of the record
ScoreCalls ==
  { Call("matchScore", << name, state, legal, dba, st >>) :
      name  \in { AcmeCo, Acme, Honeywell },
      state \in StateHints,
      legal \in { AcmeCompany, HoneywellInternationalInc, Zenith,
                  Registry["U1"].legalBusinessName },
      dba   \in { <<>>, Acme, Registry["U7"].legalBusinessName },
      st    \in { <<>>, <<"C","A">>, <<"T","X">> } }

program ==
  << now, useLocalDb, searchCache, recentlyProcessed, requests, tasks, tables,
     search, links, uniqueCompany, clientSecret >>

InitCalls ==
  /\ now = T0
  /\ useLocalDb = FALSE
  /\ searchCache = EmptyMap
  /\ recentlyProcessed = EmptyMap
  /\ requests = <<>>
  /\ tasks = <<>>
  /\ match_queue = {}
  /\ company_sam_associations = {}
  /\ sam_entities = {}
  /\ sync_log = {}
  /\ hubspot = [ c \in CompanyIds |-> "" ]
  /\ search = NoSearch
  /\ links = <<>>
  /\ uniqueCompany = FALSE
  /\ clientSecret = Secret
  /\ call \in NormalizeCalls \cup DiceCalls \cup ScoreCalls \cup KeyCalls

\* normalizeCompanyName(name) returns
CallNormalize ==
  /\ call.fn = "normalizeCompanyName"
  /\ ~call.returned
  /\ call' = [ call EXCEPT !.result = normalizeCompanyName(call.args[1]),
                            !.returned = TRUE ]
  /\ UNCHANGED program

\* the result of normalizeCompanyName is normalized once more
CallNormalizeAgain ==
  /\ call.fn = "normalizeCompanyName"
  /\ call.returned
  /\ ~call.again
  /\ call' = [ call EXCEPT !.args = << call.result >>, !.result = <<>>,
                            !.returned = FALSE, !.again = TRUE ]
  /\ UNCHANGED program

\* diceCoefficient(str1, str2) returns
CallDice ==
  /\ call.fn = "diceCoefficient"
  /\ ~call.returned
  /\ call' = [ call EXCEPT !.result = diceCoefficient(call.args[1], call.args[2]),
                            !.returned = TRUE ]
  /\ UNCHANGED program

\* the .map callback of processCompanyCreation returns its score
CallScore ==
  /\ call.fn = "matchScore"
  /\ ~call.returned
  /\ call' = [ call EXCEPT
                 !.result = MatchScore([ name |-> call.args[1], state |-> call.args[2],
                                         domain |-> "" ],
                                       Entity("U", call.args[3], call.args[4],
                                              call.args[5])),
                 !.returned = TRUE ]
  /\ UNCHANGED program

\* searchSamByName has built cacheKey from its arguments
CallCacheKey ==
  /\ call.fn = "cacheKey"
  /\ ~call.returned
  /\ call' = [ call EXCEPT
                 !.result = CacheKey([ name |-> call.args[1], state |-> call.args[2],
                                       domain |-> "" ]),
                 !.returned = TRUE ]
  /\ UNCHANGED program

NextCalls ==
  \/ CallNormalize
  \/ CallNormalizeAgain
  \/ CallDice
  \/ CallScore
  \/ CallCacheKey

SpecCalls == InitCalls /\ [][NextCalls]_vars


(***************************************************************************)
(* api/functions/searchSamEntities.ts: the search a user asks for.  Its     *)
(* diceCoefficient, normalizeCompanyName, normalizeSamEntity and scoring   *)
(* callback are those of the webhook, copied.                              *)
(***************************************************************************)
\* .slice(0, 10)
TOP_MATCHES == 10

\* searchSamByName of this file: one request, [] on a non-OK status
SearchedEntities(o) == IF o.kind = "ok" THEN o.entityData ELSE <<>>

\* samEntities.map(...).filter(...).sort(...).slice(0, 10)
TopMatches(companyId, samEntities) ==
  Slice(Matches(companyId, samEntities), TOP_MATCHES)

\* res.status(status).json(...)
SearchDone(status, matches) ==
  [ search EXCEPT !.pc = "done", !.status = status, !.matches = matches ]

\* a request arrives: 405 unless POST, 400 without companyId or token, else
\* the handler awaits getCompanyFromHubSpot; companyId 0 is a missing one
SearchReceive(method, companyId, authorized) ==
  /\ search.pc = "idle"
  /\ search' = IF method # "POST" THEN [ SearchAt("done", companyId) EXCEPT !.status = 405 ]
                ELSE IF companyId = 0 \/ ~authorized
                  THEN [ SearchAt("done", companyId) EXCEPT !.status = 400 ]
                ELSE SearchAt("getCompany", companyId)
  /\ UNCHANGED << now, useLocalDb, searchCache, recentlyProcessed, requests,
                  tasks, tables, call, links, uniqueCompany,
                  clientSecret >>

\* getCompanyFromHubSpot has settled: 500 when it threw, 400 without a name,
\* else the search with the state of the company is on its way
SearchCompanyFetched(ok) ==
  /\ search.pc = "getCompany"
  /\ search' = IF ~ok THEN SearchDone(500, <<>>)
                ELSE IF Company[search.companyId].name = <<>> THEN SearchDone(400, <<>>)
                ELSE [ search EXCEPT !.pc = "search" ]
  /\ UNCHANGED << now, useLocalDb, searchCache, recentlyProcessed, requests,
                  tasks, tables, call, links, uniqueCompany,
                  clientSecret >>

\* the first searchSamByName has settled with o
SearchResponse(o) ==
  /\ search.pc = "search"
  /\ search' = IF o.kind = "throw" THEN SearchDone(500, <<>>)
                ELSE IF SearchedEntities(o) = <<>> THEN [ search EXCEPT !.pc = "broad" ]
                ELSE [ SearchDone(200, TopMatches(search.companyId, SearchedEntities(o)))
                         EXCEPT !.samEntities = SearchedEntities(o) ]
  /\ UNCHANGED << now, useLocalDb, searchCache, recentlyProcessed, requests,
                  tasks, tables, call, links, uniqueCompany,
                  clientSecret >>

\* the search without state has settled with o; the matches are computed
\* from samEntities, the result of the first search
SearchBroadResponse(o) ==
  /\ search.pc = "broad"
  /\ search' = IF o.kind = "throw" THEN SearchDone(500, <<>>)
                ELSE IF SearchedEntities(o) = <<>> THEN SearchDone(200, <<>>)
                ELSE [ SearchDone(200, TopMatches(search.companyId, search.samEntities))
                         EXCEPT !.broadResults = SearchedEntities(o) ]
  /\ UNCHANGED << now, useLocalDb, searchCache, recentlyProcessed, requests,
                  tasks, tables, call, links, uniqueCompany,
                  clientSecret >>

\* the answers of the registry to this handler: 429 is a non-OK status
SearchAnswers ==
  { o \in FetchOutcomes(ResultLists) : o.kind # "limited" }

NextSearch ==
  \/ \E method \in {"POST", "GET"}, c \in {0} \cup CompanyIds, a \in BOOLEAN :
       SearchReceive(method, c, a)
  \/ \E ok \in BOOLEAN : SearchCompanyFetched(ok)
  \/ \E o \in SearchAnswers : SearchResponse(o)
  \/ \E o \in SearchAnswers : SearchBroadResponse(o)

SpecSearch == Init /\ [][NextSearch]_vars


(***************************************************************************)
(* api/functions/unlinkSamEntity.ts: the unlink handler (lines 1-83) and   *)
(* the link handler (lines 85-273)                                         *)
(***************************************************************************)
\* link and unlink requests received in one run
MaxLinks == 2

\* a request of handler kind ("link", "unlink") at position pc
LinkAt(kind, pc, companyId, uei, status) ==
  [ kind |-> kind, pc |-> pc, companyId |-> companyId, uei |-> uei,
    status |-> status ]

\* res.status(status).json(...)
LinkDone(k, status) ==
  links' = [ links EXCEPT ![k] = [ @ EXCEPT !.pc = "done", !.status = status ] ]

LinkStep(k, pc) == links' = [ links EXCEPT ![k] = [ @ EXCEPT !.pc = pc ] ]

\* link handler: 405 unless POST, 400 without companyId, uei (here "") or
\* token, else getEntityByUei is awaited
LinkReceive(method, companyId, uei, authorized) ==
  /\ Len(links) < MaxLinks
  /\ links' = Append(links,
       IF method # "POST" THEN LinkAt("link", "done", companyId, uei, 405)
       ELSE IF companyId = 0 \/ uei = "" \/ ~authorized
         THEN LinkAt("link", "done", companyId, uei, 400)
       ELSE LinkAt("link", "getEntity", companyId, uei, 0))
  /\ UNCHANGED << now, useLocalDb, searchCache, recentlyProcessed, requests, tasks,
                  tables, search, uniqueCompany, clientSecret, call >>

\* getEntityByUei has settled: 404 without an entity
LinkEntityFetched(k, found) ==
  /\ links[k].kind = "link" /\ links[k].pc = "getEntity"
  /\ IF found THEN LinkStep(k, "upsertEntity") ELSE LinkDone(k, 404)
  /\ UNCHANGED << now, useLocalDb, searchCache, recentlyProcessed, requests, tasks,
                  tables, search, uniqueCompany, clientSecret, call >>

\* the upsert into sam_entities has settled
LinkEntityStored(k) ==
  /\ links[k].kind = "link" /\ links[k].pc = "upsertEntity"
  /\ sam_entities' = sam_entities \cup { links[k].uei }
  /\ LinkStep(k, "upsertAssoc")
  /\ UNCHANGED << now, useLocalDb, searchCache, recentlyProcessed, requests, tasks,
                  match_queue, company_sam_associations, sync_log, hubspot,
                  search, uniqueCompany, clientSecret, call >>

\* the upsert into company_sam_associations has settled
LinkAssociated(k) ==
  /\ links[k].kind = "link" /\ links[k].pc = "upsertAssoc"
  /\ company_sam_associations' =
       UpsertAssociation(company_sam_associations,
         [ task |-> 0, hubspot_company_id |-> links[k].companyId,
           sam_uei |-> links[k].uei, match_type |-> "manual",
           match_score |-> <<1, 1>> ])
  /\ LinkStep(k, "crmUpdate")
  /\ UNCHANGED << now, useLocalDb, searchCache, recentlyProcessed, requests, tasks,
                  match_queue, sam_entities, sync_log, hubspot,
                  search, uniqueCompany, clientSecret, call >>

\* updateHubSpotCompany has settled: 500 when it threw
LinkCrmUpdated(k, ok) ==
  /\ links[k].kind = "link" /\ links[k].pc = "crmUpdate"
  /\ IF ok
       THEN /\ hubspot' = [ hubspot EXCEPT ![links[k].companyId] = links[k].uei ]
            /\ LinkStep(k, "queueDelete")
       ELSE /\ LinkDone(k, 500)
            /\ UNCHANGED hubspot
  /\ UNCHANGED << now, useLocalDb, searchCache, recentlyProcessed, requests, tasks,
                  match_queue, company_sam_associations, sam_entities, sync_log,
                  search, uniqueCompany, clientSecret, call >>

\* the delete from match_queue has settled, res.status(200)
LinkQueueCleared(k) ==
  /\ links[k].kind = "link" /\ links[k].pc = "queueDelete"
  /\ match_queue' = { row \in match_queue : row.hubspot_company_id # links[k].companyId }
  /\ LinkDone(k, 200)
  /\ UNCHANGED << now, useLocalDb, searchCache, recentlyProcessed, requests, tasks,
                  company_sam_associations, sam_entities, sync_log, hubspot,
                  search, uniqueCompany, clientSecret, call >>

\* unlink handler: 405 unless POST, 400 without companyId or token, else the
\* delete from company_sam_associations is awaited
UnlinkReceive(method, companyId, authorized) ==
  /\ Len(links) < MaxLinks
  /\ links' = Append(links,
       IF method # "POST" THEN LinkAt("unlink", "done", companyId, "", 405)
       ELSE IF companyId = 0 \/ ~authorized
         THEN LinkAt("unlink", "done", companyId, "", 400)
       ELSE LinkAt("unlink", "delete", companyId, "", 0))
  /\ UNCHANGED << now, useLocalDb, searchCache, recentlyProcessed, requests, tasks,
                  tables, search, uniqueCompany, clientSecret, call >>

\* the delete has settled
UnlinkDeleted(k) ==
  /\ links[k].kind = "unlink" /\ links[k].pc = "delete"
  /\ company_sam_associations' =
       { row \in company_sam_associations : row.hubspot_company_id # links[k].companyId }
  /\ LinkStep(k, "crmClear")
  /\ UNCHANGED << now, useLocalDb, searchCache, recentlyProcessed, requests, tasks,
                  match_queue, sam_entities, sync_log, hubspot,
                  search, uniqueCompany, clientSecret, call >>

\* updateHubSpotCompany with sam_uei: '' has settled: 200, or 500 when it threw
UnlinkCrmCleared(k, ok) ==
  /\ links[k].kind = "unlink" /\ links[k].pc = "crmClear"
  /\ IF ok
       THEN /\ hubspot' = [ hubspot EXCEPT ![links[k].companyId] = "" ]
            /\ LinkDone(k, 200)
       ELSE /\ LinkDone(k, 500)
            /\ UNCHANGED hubspot
  /\ UNCHANGED << now, useLocalDb, searchCache, recentlyProcessed, requests, tasks,
                  match_queue, company_sam_associations, sam_entities, sync_log,
                  search, uniqueCompany, clientSecret, call >>

\* One company, one request at a time, every call of a collaborator
\* succeeding: auto-links, a re-match after a change of name, manual links
\* and unlinks, with and without the unique constraint.
InitLinks ==
  /\ now = T0
  /\ useLocalDb = FALSE
  /\ searchCache = EmptyMap
  /\ recentlyProcessed = EmptyMap
  /\ requests = <<>>
  /\ tasks = <<>>
  /\ match_queue = {}
  /\ company_sam_associations = {}
  /\ sam_entities = {}
  /\ sync_log = {}
  /\ hubspot = [ c \in CompanyIds |-> "" ]
  /\ call = NoCall
  /\ search = NoSearch
  /\ links = <<>>
  /\ uniqueCompany \in BOOLEAN
  /\ clientSecret = Secret

\* no request is being handled
Quiet ==
  /\ \A r \in DOMAIN requests : requests[r].status # 0
  /\ \A t \in DOMAIN tasks : tasks[t].pc = "done"
  /\ \A k \in DOMAIN links : links[k].pc = "done"

LinkBatches == { << Created(1) >>, << Changed(1, "name") >> }

LinkAnswers == { o \in FetchOutcomes({ L_Match, L_Exact }) : o.kind = "ok" }

NextLinks ==
  \/ Tick(Grid(CacheOffsets))
  \/ \E b \in LinkBatches : Quiet /\ Receive(b)
  \/ \E r \in DOMAIN requests : Respond(r)
  \/ \E t \in DOMAIN tasks : CompanyFetched(t, TRUE)
  \/ \E t \in DOMAIN tasks, o \in LinkAnswers : SamResponse(t, o)
  \/ \E t \in DOMAIN tasks : Record(t)
  \/ \E t \in DOMAIN tasks : CrmUpdated(t, TRUE)
  \/ \E t \in DOMAIN tasks : SyncLogged(t)
  \/ \E m \in {"POST", "GET"}, a \in BOOLEAN :
       Quiet /\ (m = "POST" \/ a) /\ LinkReceive(m, 1, "U9", a)
  \/ \E k \in DOMAIN links, found \in BOOLEAN : LinkEntityFetched(k, found)
  \/ \E k \in DOMAIN links : LinkEntityStored(k)
  \/ \E k \in DOMAIN links : LinkAssociated(k)
  \/ \E k \in DOMAIN links : LinkCrmUpdated(k, TRUE)
  \/ \E k \in DOMAIN links : LinkQueueCleared(k)
  \/ \E m \in {"POST", "GET"}, a \in BOOLEAN :
       Quiet /\ (m = "POST" \/ a) /\ UnlinkReceive(m, 1, a)
  \/ \E k \in DOMAIN links : UnlinkDeleted(k)
  \/ \E k \in DOMAIN links : UnlinkCrmCleared(k, TRUE)

SpecLinks == InitLinks /\ [][NextLinks]_vars


(***************************************************************************)
(* Properties of one resolution (SpecResolve)                              *)
(***************************************************************************)
Last(s) == s[Len(s)]

\* the rows a processCompanyCreation call has written
AssocRows(t) == { row \in company_sam_associations : row.task = t }

QueueRows(t) == { row \in match_queue : row.task = t }

\* the greatest combined score of the candidates of list l for company c
BestScore(c, l) ==
  CHOOSE s \in { ScoreTable[c][l[i]] : i \in DOMAIN l } :
    \A i \in DOMAIN l : RatGE(s, ScoreTable[c][l[i]])

\* call t got a non-empty candidate list and the write of its branch is done
Decided(t) ==
  /\ tasks[t].samEntities # <<>>
  /\ tasks[t].pc \in {"crmUpdate", "syncLog", "catch", "done"}

\* C1: on a non-empty candidate list the disposition depends on the best
\* combined score only: an association row is written iff best >= 0.55, a
\* 'pending' queue row iff 0.5 <= best < 0.55, a 'no_match' queue row iff
\* every score is below 0.5; exactly one row is written in all.
C1_DispositionByBestScore ==
  \A t \in DOMAIN tasks : Decided(t) =>
    LET best == BestScore(tasks[t].companyId, tasks[t].samEntities)
    IN  /\ AssocRows(t) # {} <=> RatGE(best, <<55, 100>>)
        /\ (\E row \in QueueRows(t) : row.status = "pending")
             <=> (RatGE(best, <<1, 2>>) /\ ~RatGE(best, <<55, 100>>))
        /\ (\E row \in QueueRows(t) : row.status = "no_match")
             <=> ~RatGE(best, <<1, 2>>)
        /\ Cardinality(AssocRows(t)) + Cardinality(QueueRows(t)) = 1

\* an auto-link on a best score between 0.55 and 0.85
C1_Witness ==
  \E t \in DOMAIN tasks :
    /\ Decided(t)
    /\ AssocRows(t) # {}
    /\ ~RatGE(BestScore(tasks[t].companyId, tasks[t].samEntities), <<85, 100>>)

\* C2: a search that returned no candidate (also when every request ended
\* in an HTTP error or a used-up retry) ends in one 'no_match' queue row
\* with an empty sample and no error log row; candidates that all score
\* below 0.5 end in one 'no_match' queue row whose sample is the first
\* min(5, n) raw candidates in the order of retrieval.
C2_NoMatchRows ==
  \A t \in DOMAIN tasks :
    LET task == tasks[t]
        l    == task.samEntities
        n    == IF Len(l) < 5 THEN Len(l) ELSE 5
    IN  /\ ( /\ task.pc = "record"
             /\ task.fetches # <<>>
             /\ \A i \in DOMAIN task.fetches :
                  task.fetches[i].kind \in {"error", "limited"} )
             => l = <<>>
        /\ (task.pc = "done" /\ task.returnedAt # 0 /\ l = <<>>)
             => /\ AssocRows(t) = {}
                /\ \E row \in QueueRows(t) :
                     /\ QueueRows(t) = {row}
                     /\ row.status = "no_match"
                     /\ row.search_results = <<>>
                /\ ~ \E e \in sync_log : e.task = t /\ e.status = "error"
        /\ ( /\ task.pc = "done"
             /\ l # <<>>
             /\ ~RatGE(BestScore(task.companyId, l), <<1, 2>>) )
             => /\ AssocRows(t) = {}
                /\ \E row \in QueueRows(t) :
                     /\ QueueRows(t) = {row}
                     /\ row.status = "no_match"
                     /\ row.search_results = [ i \in 1 .. n |-> l[i] ]

\* more than five candidates, all below 0.5, and the row written
C2_Witness ==
  \E t \in DOMAIN tasks :
    /\ tasks[t].pc = "done"
    /\ Len(tasks[t].samEntities) > 5
    /\ \E row \in QueueRows(t) :
         row.status = "no_match" /\ Len(row.search_results) = 5

\* C3: a 'pending' queue row lists at most five candidates of the call,
\* each with its score in [0.5, 0.55), in non-increasing order of score,
\* and no candidate left out scores strictly higher than a listed one.
C3_PendingList ==
  \A row \in match_queue : row.status = "pending" =>
    LET sr     == row.search_results
        c      == tasks[row.task].companyId
        l      == tasks[row.task].samEntities
        listed == { sr[i].entity : i \in DOMAIN sr }
    IN  /\ Len(sr) <= 5
        /\ \A i \in DOMAIN sr :
             /\ sr[i].entity \in Range(l)
             /\ RatEQ(sr[i].score, ScoreTable[c][sr[i].entity])
             /\ RatGE(sr[i].score, <<1, 2>>)
             /\ ~RatGE(sr[i].score, <<55, 100>>)
        /\ \A i, j \in DOMAIN sr : i < j => RatGE(sr[i].score, sr[j].score)
        /\ \A k \in DOMAIN l : l[k] \notin listed =>
             \A i \in DOMAIN sr : ~RatGT(ScoreTable[c][l[k]], sr[i].score)

\* a 'pending' row of five, a sixth candidate at or above 0.5 left out
C3_Witness ==
  \E row \in match_queue :
    /\ row.status = "pending"
    /\ Len(row.search_results) = 5
    /\ \E k \in DOMAIN tasks[row.task].samEntities :
         LET u == tasks[row.task].samEntities[k]
         IN  /\ \A i \in DOMAIN row.search_results : row.search_results[i].entity # u
             /\ RatGE(ScoreTable[tasks[row.task].companyId][u], <<1, 2>>)

\* C5: when a request of the chain is answered with one entity or more, it
\* is the last request of the chain, no request of a later strategy has
\* been sent, and the search returns exactly the entities of that answer;
\* so a non-empty answer to strategy 1 keeps strategies 2, 3 and 4 unsent.
C5_ChainStopsAtFirstResult ==
  \A t \in DOMAIN tasks :
    LET f == tasks[t].fetches
    IN  \A i \in DOMAIN f :
          (f[i].kind = "ok" /\ f[i].entityData # <<>>) =>
            /\ i = Len(f)
            /\ \A j \in DOMAIN f : f[j].strategy <= f[i].strategy
            /\ tasks[t].pc \in {"record", "crmUpdate", "syncLog", "catch"}
            /\ tasks[t].samEntities = f[i].entityData

\* a company with a state and a domain, strategy 1 answered with entities
C5_Witness ==
  \E t \in DOMAIN tasks :
    /\ Company[tasks[t].companyId].state # <<>>
    /\ Company[tasks[t].companyId].domain # ""
    /\ tasks[t].pc = "record"
    /\ Len(tasks[t].fetches) = 1
    /\ tasks[t].fetches[1].strategy = 1
    /\ tasks[t].fetches[1].entityData # <<>>

\* the requests call t has sent for strategy s
FetchesOf(t, s) == SelectSeq(tasks[t].fetches, LAMBDA e : e.strategy = s)

C6_State ==
  \A t \in DOMAIN tasks :
    /\ \A s \in 1 .. 4 :
         LET fs == FetchesOf(t, s)
         IN  /\ Len(fs) <= 2
             /\ Len(fs) = 2 => fs[1].kind = "limited"
             /\ (Len(fs) = 1 /\ fs[1].kind = "limited")
                  => (tasks[t].pc = "retryDelay" /\ tasks[t].strategy = s)
    /\ tasks[t].fetches # <<>> =>
         LET e == Last(tasks[t].fetches)
         IN  ( \/ e.kind = "error"
               \/ e.kind = "limited" /\ Len(FetchesOf(t, e.strategy)) = 2 )
               => IF e.strategy < 4
                    THEN tasks[t].pc = "stratDelay" /\ tasks[t].strategy > e.strategy
                    ELSE tasks[t].pc = "record" /\ tasks[t].samEntities = <<>>

C6_Step ==
  \A t \in DOMAIN tasks :
    /\ (tasks[t].pc = "fetch" /\ tasks'[t].pc = "retryDelay")
         => tasks'[t].wakeAt = now + 2000
    /\ tasks[t].pc = "retryDelay"
         => /\ tasks'[t].pc \in {"retryDelay", "retryFetch"}
            /\ tasks'[t].pc = "retryDelay" => tasks'[t].wakeAt = tasks[t].wakeAt
            /\ tasks'[t].pc = "retryFetch" => now >= tasks[t].wakeAt
    /\ (tasks[t].pc \in {"fetch", "retryFetch"} /\ tasks'[t].pc = "catch")
         => Last(tasks'[t].fetches).kind = "throw"

\* C6: a strategy's request answered 429 is sent again once, 2000 ms or
\* more after the answer, and never a third time; a retry answered with a
\* non-OK status, and a first answer with a non-OK status other than 429
\* (not retried), make the strategy yield nothing and the chain proceed to
\* the next strategy or return the empty list; only a request that fails
\* without an HTTP status takes the call to its catch block.
C6_RetryOnce == []C6_State /\ [][C6_Step]_vars

\* strategy 1 answered 429, its retry answered 429 again, the chain gone on
C6_Witness ==
  \E t \in DOMAIN tasks :
    /\ Len(tasks[t].fetches) = 2
    /\ tasks[t].fetches[1].kind = "limited"
    /\ tasks[t].fetches[2].kind = "limited"
    /\ tasks[t].fetches[2].strategy = 1
    /\ tasks[t].pc = "stratDelay"


(***************************************************************************)
(* The thresholds of the README (SpecReadme)                               *)
(***************************************************************************)
\* C4: whichever revision of the webhook handles the event, on a non-empty
\* candidate list an association row is written iff best >= 0.85, a
\* 'pending' queue row iff 0.5 <= best < 0.85, and a 'no_match' queue row
\* iff best < 0.5.
C4_ReadmeThresholds ==
  \A t \in DOMAIN tasks : Decided(t) =>
    LET best == BestScore(tasks[t].companyId, tasks[t].samEntities)
    IN  /\ AssocRows(t) # {} <=> RatGE(best, <<85, 100>>)
        /\ (\E row \in QueueRows(t) : row.status = "pending")
             <=> (RatGE(best, <<1, 2>>) /\ ~RatGE(best, <<85, 100>>))
        /\ (\E row \in QueueRows(t) : row.status = "no_match")
             <=> ~RatGE(best, <<1, 2>>)


\* Requests to the webhook with and without the signature headers, signed
\* with the client secret or with another key, over the body or over another
\* body, to a deployment with and without a client secret; one request at a
\* time, every call of a collaborator succeeding.
InitAuth ==
  /\ now = T0
  /\ useLocalDb = FALSE
  /\ searchCache = EmptyMap
  /\ recentlyProcessed = EmptyMap
  /\ requests = <<>>
  /\ tasks = <<>>
  /\ match_queue = {}
  /\ company_sam_associations = {}
  /\ sam_entities = {}
  /\ sync_log = {}
  /\ hubspot = [ c \in CompanyIds |-> "" ]
  /\ call = NoCall
  /\ search = NoSearch
  /\ links = <<>>
  /\ uniqueCompany = FALSE
  /\ clientSecret \in { NoSecret, Secret }

AuthBatch == << Created(3) >>

AuthTimestamps == { NoHeader, << "1" >>, << "2" >> }

AuthSignatures ==
  { NoHeader } \cup
  { Hmac(k, SourceString("POST", FullUrl, b, << "1" >>)) :
      k \in { Secret, "forged" }, b \in { AuthBatch, << Created(5) >> } }

AuthAnswers == { o \in FetchOutcomes({ L_Match }) : o.kind = "ok" }

NextAuth ==
  \/ Tick(Grid(DedupOffsets))
  \/ \E s \in AuthSignatures, ts \in AuthTimestamps :
       Quiet /\ Deliver("POST", s, ts, AuthBatch)
  \/ Quiet /\ Deliver("GET", NoHeader, NoHeader, AuthBatch)
  \/ \E r \in DOMAIN requests : Respond(r)
  \/ \E t \in DOMAIN tasks : CompanyFetched(t, TRUE)
  \/ \E t \in DOMAIN tasks, o \in AuthAnswers : SamResponse(t, o)
  \/ \E t \in DOMAIN tasks : Record(t)
  \/ \E t \in DOMAIN tasks : CrmUpdated(t, TRUE)
  \/ \E t \in DOMAIN tasks : SyncLogged(t)

SpecAuth == InitAuth /\ [][NextAuth]_vars


(***************************************************************************)
(* The result cache (Spec)                                                 *)
(***************************************************************************)
\* call t is inside the backend retrieval of searchSamByName
Retrieving(t) ==
  tasks[t].pc \in {"rpc", "basic", "fetch", "retryDelay", "retryFetch", "stratDelay"}

\* in this step call t passes the name check and enters searchSamByName
StartsSearch(t) ==
  tasks[t].pc = "getCompany" /\ tasks'[t].pc \in {"rpc", "fetch", "record"}

\* in this step the retrieval of call t returns to searchSamByName
RetrievalReturns(t) == Retrieving(t) /\ tasks'[t].pc = "record"

C7_Step ==
  \A t1, t2 \in DOMAIN tasks :
    ( /\ t1 # t2
      /\ KeyOf[tasks[t1].companyId] = KeyOf[tasks[t2].companyId]
      /\ tasks[t1].returnedAt # 0
      /\ ~tasks[t1].cacheHit
      /\ now - tasks[t1].returnedAt < 5 * 60 * 1000
      /\ StartsSearch(t2) )
    => /\ tasks'[t2].pc = "record"
       /\ tasks'[t2].cacheHit
       /\ tasks'[t2].samEntities = tasks[t1].samEntities

\* C7: once a searchSamByName call that ran the retrieval has completed, a
\* call with the same cache key that starts less than 5 minutes after that
\* completion does no retrieval (so the retrieval runs once across the two
\* calls) and returns exactly the list the completed call returned.
C7_ServedFromCompletedCall == [][C7_Step]_vars

\* C8: two resolutions with the same cache key are never both inside the
\* backend retrieval: for resolutions in flight together the retrieval is
\* invoked once.
C8_SingleRetrieval ==
  \A t1, t2 \in DOMAIN tasks :
    ( /\ t1 # t2
      /\ KeyOf[tasks[t1].companyId] = KeyOf[tasks[t2].companyId] )
    => ~(Retrieving(t1) /\ Retrieving(t2))

C9_Step ==
  /\ \A t \in DOMAIN tasks :
       LET key == KeyOf[tasks[t].companyId]
       IN  /\ StartsSearch(t) =>
                IF key \in DOMAIN searchCache
                   /\ now - searchCache[key].timestamp < 5 * 60 * 1000
                  THEN /\ tasks'[t].cacheHit
                       /\ tasks'[t].pc = "record"
                       /\ tasks'[t].samEntities = searchCache[key].data
                  ELSE /\ ~tasks'[t].cacheHit
                       /\ tasks'[t].pc \in {"rpc", "fetch"}
           /\ RetrievalReturns(t) =>
                /\ key \in DOMAIN searchCache'
                /\ searchCache'[key] =
                     [ data |-> tasks'[t].samEntities, timestamp |-> now ]
  /\ \A key \in DOMAIN searchCache :
       /\ key \in DOMAIN searchCache'
       /\ searchCache'[key] # searchCache[key] =>
            \E t \in DOMAIN tasks :
              KeyOf[tasks[t].companyId] = key /\ RetrievalReturns(t)

\* C9: a lookup serves the entry of its key only at an age below 5
\* minutes; at an age of 5 minutes or more it runs the retrieval, whose
\* return replaces the entry by the new list with the time of the return;
\* an entry is never removed, and changes only when a retrieval for its key
\* returns.
C9_ExpiryAtLookup == [][C9_Step]_vars

\* an entry looked up 5 minutes or more after the return that wrote it, and
\* replaced by the return of the retrieval that the lookup started
C9_Witness ==
  \E t1, t2 \in DOMAIN tasks :
    /\ t1 # t2
    /\ KeyOf[tasks[t1].companyId] = KeyOf[tasks[t2].companyId]
    /\ tasks[t1].returnedAt # 0
    /\ requests[tasks[t2].request].receivedAt - tasks[t1].returnedAt >= 5 * 60 * 1000
    /\ tasks[t2].returnedAt # 0
    /\ ~tasks[t2].cacheHit
    /\ searchCache[KeyOf[tasks[t2].companyId]] =
         [ data |-> tasks[t2].samEntities, timestamp |-> tasks[t2].returnedAt ]

(***************************************************************************)
(* The dedup markers (SpecDedup)                                           *)
(***************************************************************************)
\* the events received so far, each as << request, index in the request >>
Positions ==
  UNION { { << r, i >> : i \in DOMAIN requests[r].events } : r \in DOMAIN requests }

EventAt(p) == requests[p[1]].events[p[2]]

AcceptedAt(p) == requests[p[1]].accepted[p[2]]

\* the accepted events with the key of the event at p that came before it
AcceptedBefore(p) ==
  { q \in Positions :
      /\ q[1] < p[1] \/ (q[1] = p[1] /\ q[2] < p[2])
      /\ AcceptedAt(q)
      /\ DedupKey(EventAt(q)) = DedupKey(EventAt(p)) }

\* the accepted events with key
AcceptedFor(key) ==
  { q \in Positions : AcceptedAt(q) /\ DedupKey(EventAt(q)) = key }

\* the latest time of receipt among the events at the positions ps
LatestReceipt(ps) ==
  LET times == { requests[q[1]].receivedAt : q \in ps }
  IN  CHOOSE x \in times : \A y \in times : y <= x

\* C10: an event that qualifies is accepted iff no event with its key was
\* accepted before it or the last such event was received 30 s or more
\* before it; the marker of a key is the time of receipt of the last
\* accepted event with that key, so a skipped event leaves it unchanged and
\* an accepted one overwrites it; the calls started for a request are its
\* accepted events, in order.
C10_DedupWindow ==
  /\ \A p \in Positions :
       AcceptedAt(p) <=>
         /\ Qualifies(EventAt(p))
         /\ \/ AcceptedBefore(p) = {}
            \/ requests[p[1]].receivedAt - LatestReceipt(AcceptedBefore(p)) >= 30 * 1000
  /\ \A p \in Positions :
       LET key == DedupKey(EventAt(p))
       IN  IF AcceptedFor(key) = {}
             THEN key \notin DOMAIN recentlyProcessed
             ELSE /\ key \in DOMAIN recentlyProcessed
                  /\ recentlyProcessed[key] = LatestReceipt(AcceptedFor(key))
  /\ \A r \in DOMAIN requests :
       LET started == SelectSeq(tasks, LAMBDA task : task.request = r)
           taken   == SelectSeq([ i \in DOMAIN requests[r].events |-> << r, i >> ],
                                AcceptedAt)
       IN  /\ Len(started) = Len(taken)
           /\ \A i \in DOMAIN started :
                started[i].companyId = EventAt(taken[i]).objectId

\* an event accepted, one with its key skipped 29.5 s later, and one with
\* its key accepted 30 s after the first
C10_Witness ==
  \E p1, p2, p3 \in Positions :
    /\ DedupKey(EventAt(p1)) = DedupKey(EventAt(p2))
    /\ DedupKey(EventAt(p2)) = DedupKey(EventAt(p3))
    /\ AcceptedAt(p1) /\ AcceptedAt(p3)
    /\ Qualifies(EventAt(p2)) /\ ~AcceptedAt(p2)
    /\ requests[p2[1]].receivedAt - requests[p1[1]].receivedAt = 30 * 1000 - 500
    /\ requests[p3[1]].receivedAt - requests[p1[1]].receivedAt = 30 * 1000
    /\ recentlyProcessed[DedupKey(EventAt(p3))] = requests[p3[1]].receivedAt


(***************************************************************************)
(* The response of the handler (SpecBatch)                                 *)
(***************************************************************************)
\* C11: a request is answered (200 or 500) only when every
\* processCompanyCreation call started for its batch has finished.
C11_ResponseAfterAll ==
  \A r \in DOMAIN requests :
    requests[r].status # 0 =>
      \A t \in DOMAIN tasks : tasks[t].request = r => tasks[t].pc = "done"

(***************************************************************************)
(* Failure paths of one resolution (SpecResolve)                           *)
(***************************************************************************)
\* C12: a company whose name is empty after normalization is dropped at the
\* name check: its call asks neither the registry nor the local table, gets
\* no candidate list and writes no association.
C12_EmptyNameShortCircuits ==
  \A t \in DOMAIN tasks :
    KeyOf[tasks[t].companyId][1] = <<>> =>
      /\ tasks[t].pc \in {"getCompany", "catch", "done"}
      /\ tasks[t].returnedAt = 0
      /\ tasks[t].samEntities = <<>>
      /\ AssocRows(t) = {}

\* C13: whatever the registry backend answers, a call that has asked it does
\* not end in the catch block (an error log row) with no disposition
\* recorded.
C13_NoFailedResolution ==
  \A t \in DOMAIN tasks :
    ( /\ tasks[t].pc = "catch"
      /\ (tasks[t].fetches # <<>> \/ tasks[t].dbQueries > 0) )
      => AssocRows(t) \cup QueueRows(t) # {}

(***************************************************************************)
(* Properties of the helper functions (SpecCalls)                          *)
(***************************************************************************)
Normalized == call.fn = "normalizeCompanyName" /\ call.returned

\* C14: normalizing a normalized name gives the same name.
C14_Idempotent ==
  (Normalized /\ call.again) => call.result = call.args[1]

IsAlnum(c) == c \in Range(Lowers) \cup Range(Uppers) \cup Digits

\* the last index of the run of letters and digits that starts at i
RECURSIVE AlnumEnd(_, _)
AlnumEnd(s, i) ==
  IF i < Len(s) /\ IsAlnum(s[i + 1]) THEN AlnumEnd(s, i + 1) ELSE i

\* the letters and digits of s from index i on, without the runs of letters
\* and digits that are a legal suffix standing alone (not joined to an
\* underscore)
RECURSIVE WithoutSuffixWords(_, _)
WithoutSuffixWords(s, i) ==
  IF i > Len(s) THEN <<>>
  ELSE IF ~IsAlnum(s[i]) THEN WithoutSuffixWords(s, i + 1)
  ELSE LET j == AlnumEnd(s, i)
           w == SubSeq(s, i, j)
           joined == \/ i > 1 /\ s[i - 1] = "_"
                     \/ j < Len(s) /\ s[j + 1] = "_"
       IN  IF w \in LegalSuffixes /\ ~joined
             THEN WithoutSuffixWords(s, j + 1)
             ELSE w \o WithoutSuffixWords(s, j + 1)

\* C15: a legal suffix is removed only where it is a whole word: the letters
\* and digits of the result are those of the lower-cased name without the
\* words that are a legal suffix, so a suffix inside a longer word stays;
\* "Incorporate Systems Inc" gives "incorporate systems".
C15_WholeWordSuffixOnly ==
  Normalized =>
    /\ SelectSeq(call.result, IsAlnum)
          = WithoutSuffixWords(toLowerCase(call.args[1]), 1)
    /\ call.args[1] = IncorporateSystemsInc
          => call.result = <<"i","n","c","o","r","p","o","r","a","t","e"," ","s","y","s","t","e","m","s">>

\* "Incorporate Systems Inc" has been normalized
C15_Witness ==
  /\ Normalized
  /\ call.args[1] = IncorporateSystemsInc
  /\ Len(call.result) = Len(IncorporateSystemsInc) - 4

\* C16: a normalized name is made of lower-case letters, digits and single
\* spaces only, with no space at either end.
C16_OutputAlphabet ==
  Normalized =>
    \A i \in DOMAIN call.result :
      /\ call.result[i] \in Range(Lowers) \cup Digits \cup {" "}
      /\ call.result[i] = " " =>
            /\ 1 < i /\ i < Len(call.result)
            /\ call.result[i + 1] # " "

Diced == call.fn = "diceCoefficient" /\ call.returned

\* C17: diceCoefficient(a, b) = diceCoefficient(b, a), also when an argument
\* repeats a bigram.
C17_Symmetric ==
  Diced => RatEQ(call.result, diceCoefficient(call.args[2], call.args[1]))

\* a positive score of two different strings, the first with a repeated bigram
C17_Witness ==
  /\ Diced
  /\ LET s1 == Fold(call.args[1])
     IN  /\ Len(s1) > 2
         /\ Cardinality(Bigrams(s1)) < Len(s1) - 1
         /\ s1 # Fold(call.args[2])
  /\ call.result[1] > 0

\* C18: the result is exactly 1 when the folded arguments are equal (both
\* empty too), exactly 0 when they differ and one of them has fewer than two
\* characters, and between 0 and 1 in every case.
C18_DiceValues ==
  Diced =>
    LET s1 == SelectSeq(toLowerCase(call.args[1]), IsAlnum)
        s2 == SelectSeq(toLowerCase(call.args[2]), IsAlnum)
    IN  /\ s1 = s2 => call.result[1] = call.result[2]
        /\ (s1 # s2 /\ (Len(s1) < 2 \/ Len(s2) < 2)) => call.result[1] = 0
        /\ call.result[2] > 0
        /\ 0 <= call.result[1] /\ call.result[1] <= call.result[2]

\* two different arguments that both fold to the empty string score 1
C18_Witness ==
  /\ Diced
  /\ call.args[1] # call.args[2]
  /\ Fold(call.args[1]) = <<>> /\ Fold(call.args[2]) = <<>>
  /\ call.result = <<1, 1>>

Scored_ == call.fn = "matchScore" /\ call.returned

\* C19: the combined score is min(1, max(nameScore, altScore) + bonus):
\* altScore is 0 without a DBA name, bonus is 0.1 exactly when the company
\* has a state that equals the state of the record but for case, else 0;
\* the score is between 0 and 1; "Acme Co" (CA) against "Acme Company" (CA)
\* scores 1.
C19_CombinedScore ==
  Scored_ =>
    LET name      == normalizeCompanyName(call.args[1])
        nameScore == diceCoefficient(name, normalizeCompanyName(call.args[3]))
        altScore  == IF call.args[4] = <<>> THEN <<0, 1>>
                     ELSE diceCoefficient(name, normalizeCompanyName(call.args[4]))
        best      == IF RatGT(altScore, nameScore) THEN altScore ELSE nameScore
        bonus     == IF /\ call.args[2] # <<>>
                        /\ toUpperCase(call.args[2]) = toUpperCase(call.args[5])
                       THEN 1 ELSE 0
        \* best + bonus / 10, in tenths of the denominator of best
        sum       == << 10 * best[1] + bonus * best[2], 10 * best[2] >>
    IN  /\ IF sum[1] >= sum[2] THEN RatEQ(call.result, <<1, 1>>)
                               ELSE RatEQ(call.result, sum)
        /\ RatGE(call.result, <<0, 1>>) /\ RatGE(<<1, 1>>, call.result)
        /\ ( /\ call.args[1] = AcmeCo /\ call.args[3] = AcmeCompany
              /\ call.args[2] = <<"C","A">> /\ call.args[5] = <<"C","A">> )
              => RatEQ(call.result, <<1, 1>>)

\* "Acme Co" (CA) against "Acme Company" (CA) has been scored
C19_Witness ==
  /\ Scored_
  /\ call.args = << AcmeCo, <<"C","A">>, AcmeCompany, <<>>, <<"C","A">> >>
  /\ RatGE(call.result, <<1, 1>>)

(***************************************************************************)
(* The Honeywell example (SpecResolve)                                     *)
(***************************************************************************)
\* C20: for the company "Honeywell" (no state) the record "Honeywell
\* International Inc" (no DBA name) scores at least 0.55 and is linked
\* automatically.
C20_HoneywellLinked ==
  \A t \in DOMAIN tasks :
    ( /\ Company[tasks[t].companyId].name = Honeywell
      /\ \E i \in DOMAIN tasks[t].samEntities :
           Registry[tasks[t].samEntities[i]].legalBusinessName = HoneywellInternationalInc
      /\ Decided(t) )
      => \E row \in AssocRows(t) :
           /\ AssocRows(t) = {row}
           /\ QueueRows(t) = {}
           /\ Registry[row.sam_uei].legalBusinessName = HoneywellInternationalInc
           /\ row.match_type = "automatic"
           /\ RatGE(row.match_score, <<55, 100>>)

\* the association of Honeywell has been written
C20_Witness ==
  \E t \in DOMAIN tasks :
    /\ Company[tasks[t].companyId].name = Honeywell
    /\ Decided(t)
    /\ \E row \in AssocRows(t) :
         Registry[row.sam_uei].legalBusinessName = HoneywellInternationalInc

(***************************************************************************)
(* diceCoefficient and bigram multisets (SpecCalls)                        *)
(***************************************************************************)
\* the number of places of s where bigram g stands
Occurrences(s, g) == Cardinality({ i \in 1 .. Len(s) - 1 : SubSeq(s, i, i + 1) = g })

\* the size of the intersection of the bigram multisets of s1 and s2, summed
\* over the bigrams in set gs
RECURSIVE CommonOccurrences(_, _, _)
CommonOccurrences(s1, s2, gs) ==
  IF gs = {} THEN 0
  ELSE LET g  == CHOOSE x \in gs : TRUE
           n1 == Occurrences(s1, g)
           n2 == Occurrences(s2, g)
       IN  (IF n1 < n2 THEN n1 ELSE n2) + CommonOccurrences(s1, s2, gs \ {g})

\* C21: for folded arguments that differ and have two characters or more,
\* the result is 2 * m / (len(a) + len(b) - 2), m the size of the
\* intersection of the two bigram multisets.
C21_MultisetDice ==
  Diced =>
    LET s1 == SelectSeq(toLowerCase(call.args[1]), IsAlnum)
        s2 == SelectSeq(toLowerCase(call.args[2]), IsAlnum)
    IN  (s1 # s2 /\ Len(s1) >= 2 /\ Len(s2) >= 2) =>
          RatEQ(call.result,
                << 2 * CommonOccurrences(s1, s2, Bigrams(s1) \cap Bigrams(s2)),
                   Len(s1) + Len(s2) - 2 >>)

(***************************************************************************)
(* The order of the strategies (SpecResolve)                               *)
(***************************************************************************)
\* C22: the requests of one searchSamApi call go out one at a time, the
\* first for strategy 1 and the strategies never decreasing; a request of
\* strategy 2 needs a state hint, one of strategy 3 a domain hint, and a
\* request of strategy 2, 3 or 4 is sent only when every request before it,
\* of an earlier strategy, has returned nothing.
C22_StrategyOrder ==
  \A t \in DOMAIN tasks :
    LET fs    == tasks[t].fetches
        props == Company[tasks[t].companyId]
    IN  \A i \in DOMAIN fs :
          /\ fs[i].kind = "sent" => i = Len(fs)
          /\ i = 1 => fs[i].strategy = 1
          /\ i > 1 => fs[i - 1].strategy <= fs[i].strategy
          /\ fs[i].strategy = 2 => props.state # <<>>
          /\ fs[i].strategy = 3 => props.domain # ""
          /\ \A j \in 1 .. i - 1 :
                /\ fs[j].kind # "sent"
                /\ fs[j].strategy < fs[i].strategy => fs[j].entityData = <<>>

\* a call that has sent the requests of all four strategies
C22_Witness ==
  \E t \in DOMAIN tasks :
    /\ \A k \in 1 .. 4 : \E i \in DOMAIN tasks[t].fetches : tasks[t].fetches[i].strategy = k
    /\ Last(tasks[t].fetches).kind # "sent"

(***************************************************************************)
(* Ties among candidates (SpecResolve)                                     *)
(***************************************************************************)
\* the place of record u in list l
IndexOf(l, u) == CHOOSE k \in DOMAIN l : l[k] = u

\* C23: candidates are ranked by score, ties in the order of retrieval: the
\* record linked automatically has the greatest score of the list and is the
\* first retrieved among those that have it; a 'pending' list is in
\* non-increasing order of score and keeps the order of retrieval among
\* equal scores.
C23_StableRanking ==
  /\ \A row \in company_sam_associations :
       LET c == tasks[row.task].companyId
           l == tasks[row.task].samEntities
       IN  /\ row.sam_uei \in Range(l)
           /\ \A k \in DOMAIN l :
                /\ RatGE(ScoreTable[c][row.sam_uei], ScoreTable[c][l[k]])
                /\ RatEQ(ScoreTable[c][row.sam_uei], ScoreTable[c][l[k]])
                     => IndexOf(l, row.sam_uei) <= k
  /\ \A row \in match_queue : row.status = "pending" =>
       LET sr == row.search_results
           l  == tasks[row.task].samEntities
       IN  \A i, j \in DOMAIN sr : i < j =>
             /\ RatGE(sr[i].score, sr[j].score)
             /\ RatEQ(sr[i].score, sr[j].score)
                  => IndexOf(l, sr[i].entity) < IndexOf(l, sr[j].entity)

\* an automatic link where a later candidate has the same greatest score
C23_Witness ==
  /\ \E row \in company_sam_associations :
       LET c == tasks[row.task].companyId
           l == tasks[row.task].samEntities
       IN  /\ KeyOf[c][1] # <<>>
           /\ \E k \in DOMAIN l :
                /\ l[k] # row.sam_uei
                /\ RatEQ(ScoreTable[c][row.sam_uei], ScoreTable[c][l[k]])

(***************************************************************************)
(* The search a user asks for (SpecSearch)                                 *)
(***************************************************************************)
\* C24: when the search with the state returns nothing and the search
\* without it returns entities, the matches of the response are those
\* entities that score 0.5 or more, by score, at most ten; the matches are
\* empty only if no retrieved entity scores 0.5 or more.
C24_BroadResultsUsed ==
  (search.pc = "done" /\ search.status = 200) =>
    /\ (search.samEntities = <<>> /\ search.broadResults # <<>>)
         => search.matches = TopMatches(search.companyId, search.broadResults)
    /\ search.matches = <<>> =>
         \A u \in Range(search.samEntities) \cup Range(search.broadResults) :
           ~RatGE(ScoreTable[search.companyId][u], MIN_SCORE)

(***************************************************************************)
(* Associations and the CRM property (SpecLinks)                           *)
(***************************************************************************)
\* the association rows of company c
RowsOf(c) == { row \in company_sam_associations : row.hubspot_company_id = c }

\* C25: when no request is being handled, a company has at most one
\* association row, the row names the sam_uei the CRM company holds, and
\* there is no row exactly when the CRM property is empty.
C25_OneRowAsInCrm ==
  Quiet =>
    \A c \in CompanyIds :
      /\ Cardinality(RowsOf(c)) <= 1
      /\ \A row \in RowsOf(c) : row.sam_uei = hubspot[c]
      /\ RowsOf(c) = {} <=> hubspot[c] = ""

(***************************************************************************)
(* The dedup marker of a failed call (SpecDedup)                           *)
(***************************************************************************)
\* call t has taken the error branch of processCompanyCreation
Failed(t) ==
  \/ tasks[t].pc = "catch"
  \/ \E row \in sync_log : row.task = t /\ row.status = "error"

\* C26: the marker of an accepted event stays when its call fails: it is
\* still set, an event with the same key received less than 30 s after the
\* acceptance is skipped, and no other call for the company is started in
\* that window.
C26_MarkerSurvivesFailure ==
  \A t \in DOMAIN tasks : Failed(t) =>
    LET key == << tasks[t].portalId, tasks[t].companyId >>
        at  == requests[tasks[t].request].receivedAt
    IN  /\ MapHas(recentlyProcessed, key)
        /\ recentlyProcessed[key] >= at
        /\ \A q \in Positions :
             ( /\ q[1] > tasks[t].request
               /\ DedupKey(EventAt(q)) = key
               /\ requests[q[1]].receivedAt - at < DEDUP_TTL )
               => ~AcceptedAt(q)
        /\ \A t2 \in DOMAIN tasks :
             ( /\ t2 # t
               /\ tasks[t2].companyId = tasks[t].companyId
               /\ requests[tasks[t2].request].receivedAt >= at )
               => requests[tasks[t2].request].receivedAt - at >= DEDUP_TTL

\* a call whose CRM fetch failed, and a redelivery of its event skipped in
\* the window, after the failure
C26_Witness ==
  \E t \in DOMAIN tasks, q \in Positions :
    /\ tasks[t].pc = "done"
    /\ tasks[t].returnedAt = 0
    /\ \E row \in sync_log : row.task = t /\ row.status = "error"
    /\ q[1] > tasks[t].request
    /\ DedupKey(EventAt(q)) = << tasks[t].portalId, tasks[t].companyId >>
    /\ Qualifies(EventAt(q))
    /\ requests[q[1]].receivedAt > requests[tasks[t].request].receivedAt
    /\ ~AcceptedAt(q)

(***************************************************************************)
(* Cached empty results (Spec)                                             *)
(***************************************************************************)
C27_Step ==
  /\ \A t \in DOMAIN tasks :
       RetrievalReturns(t) =>
         LET key == KeyOf[tasks[t].companyId]
         IN  /\ key \in DOMAIN searchCache'
             /\ searchCache'[key].data = tasks'[t].samEntities
  /\ \A t1, t2 \in DOMAIN tasks :
       ( /\ t1 # t2
         /\ KeyOf[tasks[t1].companyId] = KeyOf[tasks[t2].companyId]
         /\ tasks[t1].returnedAt # 0
         /\ ~tasks[t1].cacheHit
         /\ tasks[t1].samEntities = <<>>
         /\ now - tasks[t1].returnedAt < CACHE_TTL
         /\ StartsSearch(t2) )
       => /\ tasks'[t2].cacheHit
          /\ tasks'[t2].pc = "record"
          /\ tasks'[t2].samEntities = <<>>

\* C27: a retrieval that returns stores its list under its key, an empty
\* list from HTTP errors or an exhausted retry included, and a call with the
\* same key that starts less than 5 minutes after a retrieval returned an
\* empty list is served that empty list without a retrieval.
C27_EmptyResultServed == [][C27_Step]_vars

(***************************************************************************)
(* The signature test of the webhook (SpecAuth)                            *)
(***************************************************************************)
C28_Step ==
  Len(requests') = Len(requests) + 1 =>
    LET r       == requests'[Len(requests')]
        checked == /\ r.signature # <<>>
                   /\ r.timestamp # <<>>
                   /\ clientSecret # ""
        matches == r.signature =
                     << clientSecret, << "POST", FullUrl, r.events, r.timestamp >> >>
        p       == ProcessEvents(r.events, 1, recentlyProcessed, <<>>, now)
    IN  /\ r.method # "POST" =>
              /\ r.status = 405
              /\ UNCHANGED << now, useLocalDb, searchCache, recentlyProcessed,
                              tasks, tables, aside >>
        /\ (r.method = "POST" /\ checked /\ ~matches) =>
              /\ r.status = 401
              /\ \A i \in DOMAIN r.accepted : ~r.accepted[i]
              /\ UNCHANGED << recentlyProcessed, tasks, tables >>
        /\ (r.method = "POST" /\ ~checked) =>
              /\ r.status \in {0, 500}
              /\ r.accepted = p.accepted
              /\ recentlyProcessed' = p.rp
              /\ tasks' = tasks \o NewTasks(r.events, p.accepted, 1, Len(requests'))

\* C28: a non-POST request is answered 405 and changes nothing; a POST with
\* both signature headers, to a deployment with a client secret, whose
\* signature does not match is answered 401, sets no dedup marker and starts
\* no call; a POST that lacks a header, or any POST to a deployment without
\* a client secret, goes through the event loop unverified.
C28_SignatureTest == [][C28_Step]_vars

\* a GET answered 405, a POST with a signature under another key answered
\* 401, and a POST without the signature header whose event was processed
\* by a deployment that has a client secret
C28_Witness ==
  /\ clientSecret # ""
  /\ \E r1, r2, r3 \in DOMAIN requests :
       /\ requests[r1].method = "GET" /\ requests[r1].status = 405
       /\ requests[r2].method = "POST" /\ requests[r2].status = 401
       /\ requests[r2].signature # <<>> /\ requests[r2].timestamp # <<>>
       /\ requests[r3].method = "POST" /\ requests[r3].status = 200
       /\ requests[r3].signature = <<>>
       /\ requests[r3].accepted[1]
       /\ \E t \in DOMAIN tasks : tasks[t].request = r3 /\ tasks[t].pc = "done"

(***************************************************************************)
(* The two forms of the state hint (SpecCalls)                             *)
(***************************************************************************)
\* C29: the cache key holds the state hint trimmed and as its 2-letter
\* upper-case code, whether the hint is the code in any case or the full
\* name; the bonus of 0.1 compares the raw hint, lower-cased only, with the
\* state code of the record: against a record in CA the hints "CA" and "ca"
\* earn it, "California" and " CA" do not.
C29_StateForms ==
  /\ (call.fn = "cacheKey" /\ call.returned) =>
       call.result[2] = IF call.args[2] = <<>> THEN <<>> ELSE <<"C","A">>
  /\ (Scored_ /\ call.args[5] = <<"C","A">>) =>
       LET name      == normalizeCompanyName(call.args[1])
           nameScore == diceCoefficient(name, normalizeCompanyName(call.args[3]))
           altScore  == IF call.args[4] = <<>> THEN <<0, 1>>
                        ELSE diceCoefficient(name, normalizeCompanyName(call.args[4]))
           base      == RatMax(nameScore, altScore)
       IN  IF call.args[2] \in { <<"C","A">>, <<"c","a">> }
             THEN RatEQ(call.result, RatMin(<<1, 1>>, RatAdd(base, <<1, 10>>)))
             ELSE RatEQ(call.result, base)

\* the hint "California", which the retrieval turns into "CA", scored
\* against a record in CA with a score below 1
C29_Witness ==
  /\ Scored_
  /\ call.args[2] = Company[2].state
  /\ call.args[5] = <<"C","A">>
  /\ normalizeStateCode(call.args[2]) = call.args[5]
  /\ RatGT(call.result, <<0, 1>>)
  /\ RatGT(<<1, 1>>, call.result)

(***************************************************************************)
(* The requests of one searchSamApi call (SpecResolveFair)                 *)
(***************************************************************************)
\* call t is inside searchSamApi
InApi(t) ==
  t \in DOMAIN tasks /\ tasks[t].pc \in {"fetch", "retryDelay", "retryFetch", "stratDelay"}

C30_State ==
  \A t \in DOMAIN tasks :
    LET f == tasks[t].fetches
    IN  /\ Len(f) <= 8
        /\ \A s \in 1 .. 4 : Len(FetchesOf(t, s)) <= 2
        /\ \A i \in DOMAIN f : f[i].strategy \in 1 .. 4
        /\ (\A i \in DOMAIN f : f[i].kind # "limited") =>
             /\ Len(f) <= 4
             /\ (f # <<>> /\ f[1].kind = "ok" /\ f[1].entityData # <<>>)
                  => Len(f) = 1 /\ f[1].strategy = 1 /\ ~InApi(t)

\* C30: a searchSamApi call sends at most 8 requests, at most 2 for each of
\* its 4 strategies; at most 4 when no answer is a 429, and exactly 1 when
\* the request of strategy 1 is answered with entities; and when every
\* request is answered the call leaves searchSamApi.
C30_BoundedChain ==
  /\ []C30_State
  /\ \A t \in 1 .. MaxTasks : InApi(t) ~> ~InApi(t)

\* a call that has sent 8 requests, each strategy answered 429 and retried,
\* and has returned from searchSamApi
C30_Witness ==
  \E t \in DOMAIN tasks :
    /\ Len(tasks[t].fetches) = 8
    /\ \A s \in 1 .. 4 : FetchesOf(t, s)[1].kind = "limited"
    /\ tasks[t].pc = "record"

=============================================================================
